---- MODULE Spec2Model ----
(***************************************************************************)
(* Verification model of the ragnarok container library:                   *)
(*   - lockfreelist.List   (atomic head/tail/next/prev, CAS retry loops)   *)
(*   - zset.ZSet           (skip-list + dictionary under a RWMutex)        *)
(*   - bptree.BPTree       (B+ tree with linked leaves)                    *)
(* Each container has its own specification over its own variables; the    *)
(* variables of the other containers stay at their constructed value.      *)
(***************************************************************************)
EXTENDS Integers, Sequences, FiniteSets, TLC

VARIABLES
    \* ---- lockfreelist.List -------------------------------------------
    lfHead,     \* List.head : element id, 0 = nil
    lfTail,     \* List.tail : element id, 0 = nil
    lfLen,      \* List.len
    lfNext,     \* element.next, per element id
    lfPrev,     \* element.prev, per element id
    lfPc,       \* per thread: position inside AddFront / AddBack
    lfOp,       \* per thread: "front" | "back" | "none"
    lfSnap,     \* per thread: the head / tail value loaded at the loop top
    lfRm,       \* per thread in Remove: [elem, prev, next, ret]
    lfList,     \* element.list # nil, per element id
    \* ---- zset.ZSet ---------------------------------------------------
    zset,       \* [dict, header, nodes, tail, length, level]
    zmu,        \* ZSet.mu is held (TRUE) or free (FALSE)
    zpc,        \* per thread: "idle" | "rem" | "ins" | "done"
    zarg,       \* per thread: arguments of the ZAdd in progress
    zlast,      \* the last call that returned: [op, ele, score, ret, replaced]
    zOps,       \* number of ZAdd / ZRem calls made so far
    zrr,        \* the ZRevRank call of the reader: [pc, ele, rank, states, ret, ok],
                \* states the (length, rank) pairs of the states during the call
    \* ---- bptree.BPTree -----------------------------------------------
    bpt,        \* [root, leafHeader, heap, alloc]
    bpOps,      \* number of Insert / Delete calls made so far
    bpLast,     \* the last call that returned: [op, key, val, ret, had]
    bpShadow,   \* the key -> value map the calls so far describe
    \* ---- lockfreelist.List with plugins, one caller -------------------
    sl,         \* [elems, lists, nodes, hang]
    slLast,     \* the last call: [op, l, h, key, val, ret, before, pos]
    slOps,      \* number of calls made so far
    \* ---- bloom_filter.BloomFilter -------------------------------------
    bf,         \* [bitset, m, hashFuncs, hashFuncNum]
    bfAdded,    \* the items added since the last Reset
    bfLast,     \* the last call of the single caller: [op, item, ret]
    bfThr,      \* per goroutine: position inside Contains, [pc, item, i, added, alone, ret, done]
    bfOps,      \* number of calls made so far
    \* ---- safemap.SafeMap ----------------------------------------------
    smMap,      \* the entries [k, v] of the sync.Map
    smRu,       \* the RangeUpdate call: [pc, fn, start, must, visited, calls, items,
                \* workerCount, sent, closed]
    smCh,       \* taskCh: the items sent and not yet received
    smW,        \* per worker: [pc, item]
    smStores,   \* per key: the stores applied since RangeUpdate began, [ext, worker, by, v]
    smOps,      \* number of Store / Load calls of other goroutines so far
    smLast,     \* the last Load that returned: [op, key, value, ok, last], last the
                \* smStores entry of the key when it was called
    \* ---- heap.Heap ----------------------------------------------------
    hp,         \* [HPDate, heapSize, capacity, compareFn]
    hpLast,     \* the last call: [op, arg, ret, err]
    hpOps,      \* number of calls made so far
    \* ---- list.List (mutex-based, with plugins) ------------------------
    ml,         \* [next, prev, list, len, mu]
    mlT,        \* per goroutine: [pc, op, n, ret]
    \* ---- rnats.Client / rrdb.StreamClient Subscribe -------------------
    sub         \* [kind, msgs]

lfVars == <<lfHead, lfTail, lfLen, lfNext, lfPrev, lfPc, lfOp, lfSnap, lfRm, lfList>>
zVars == <<zset, zmu, zpc, zarg, zlast, zOps, zrr>>
bpVars == <<bpt, bpOps, bpLast, bpShadow>>
slVars == <<sl, slLast, slOps>>
bfVars == <<bf, bfAdded, bfLast, bfThr, bfOps>>
smVars == <<smMap, smRu, smCh, smW, smStores, smOps, smLast>>
hpVars == <<hp, hpLast, hpOps>>
mlVars == <<ml, mlT>>
subVars == <<sub>>
vars == <<lfVars, zVars, bpVars, slVars, bfVars, smVars, hpVars, mlVars, subVars>>

Nil == 0

(***************************************************************************)
(*                         lockfreelist.List                               *)
(***************************************************************************)

\* Number of threads, each making one AddFront or AddBack call.
NumThreads == 3

LfThreads == 1..NumThreads

\* Thread t inserts the element with id t (one fresh element per call).
LfElems == LfThreads

\* The locals of a thread that is not in Remove.
LfNoRemove == [elem |-> Nil, prev |-> Nil, next |-> Nil, ret |-> FALSE]

New ==
    /\ lfHead = Nil
    /\ lfTail = Nil
    /\ lfLen = 0
    /\ lfNext = [e \in LfElems |-> Nil]
    /\ lfPrev = [e \in LfElems |-> Nil]
    /\ lfPc = [t \in LfThreads |-> "idle"]
    /\ lfOp = [t \in LfThreads |-> "none"]
    /\ lfSnap = [t \in LfThreads |-> Nil]
    /\ lfRm = [t \in LfThreads |-> LfNoRemove]
    /\ lfList = [e \in LfElems |-> TRUE]

\* A caller enters AddFront (e := &element{...}; no index plugin attached).
AddFront(t) ==
    /\ lfPc[t] = "idle"
    /\ lfPc' = [lfPc EXCEPT ![t] = "load"]
    /\ lfOp' = [lfOp EXCEPT ![t] = "front"]
    /\ UNCHANGED <<lfHead, lfTail, lfLen, lfNext, lfPrev, lfSnap, lfRm, lfList>>

\* A caller enters AddBack.
AddBack(t) ==
    /\ lfPc[t] = "idle"
    /\ lfPc' = [lfPc EXCEPT ![t] = "load"]
    /\ lfOp' = [lfOp EXCEPT ![t] = "back"]
    /\ UNCHANGED <<lfHead, lfTail, lfLen, lfNext, lfPrev, lfSnap, lfRm, lfList>>

\* head := l.head.Load()   /   tail := l.tail.Load()
AddLoad(t) ==
    /\ lfPc[t] = "load"
    /\ lfSnap' = [lfSnap EXCEPT ![t] = IF lfOp[t] = "front" THEN lfHead ELSE lfTail]
    /\ lfPc' = [lfPc EXCEPT ![t] = "link"]
    /\ UNCHANGED <<lfHead, lfTail, lfLen, lfNext, lfPrev, lfOp, lfRm, lfList>>

\* e.next.Store(head)   /   e.prev.Store(tail)
AddLink(t) ==
    /\ lfPc[t] = "link"
    /\ IF lfOp[t] = "front"
       THEN /\ lfNext' = [lfNext EXCEPT ![t] = lfSnap[t]]
            /\ UNCHANGED lfPrev
       ELSE /\ lfPrev' = [lfPrev EXCEPT ![t] = lfSnap[t]]
            /\ UNCHANGED lfNext
    /\ lfPc' = [lfPc EXCEPT ![t] = IF lfSnap[t] # Nil THEN "nbr" ELSE "cas"]
    /\ UNCHANGED <<lfHead, lfTail, lfLen, lfOp, lfSnap, lfRm, lfList>>

\* if head != nil { head.prev.Store(e) }   /   if tail != nil { tail.next.Store(e) }
AddNeighbour(t) ==
    /\ lfPc[t] = "nbr"
    /\ IF lfOp[t] = "front"
       THEN /\ lfPrev' = [lfPrev EXCEPT ![lfSnap[t]] = t]
            /\ UNCHANGED lfNext
       ELSE /\ lfNext' = [lfNext EXCEPT ![lfSnap[t]] = t]
            /\ UNCHANGED lfPrev
    /\ lfPc' = [lfPc EXCEPT ![t] = "cas"]
    /\ UNCHANGED <<lfHead, lfTail, lfLen, lfOp, lfSnap, lfRm, lfList>>

\* l.head.CompareAndSwap(head, e)   /   l.tail.CompareAndSwap(tail, e);
\* a failed CAS goes round the for loop again.
AddCAS(t) ==
    /\ lfPc[t] = "cas"
    /\ IF lfOp[t] = "front"
       THEN /\ IF lfHead = lfSnap[t]
               THEN lfHead' = t /\ lfPc' = [lfPc EXCEPT ![t] = "chk"]
               ELSE lfHead' = lfHead /\ lfPc' = [lfPc EXCEPT ![t] = "load"]
            /\ UNCHANGED lfTail
       ELSE /\ IF lfTail = lfSnap[t]
               THEN lfTail' = t /\ lfPc' = [lfPc EXCEPT ![t] = "chk"]
               ELSE lfTail' = lfTail /\ lfPc' = [lfPc EXCEPT ![t] = "load"]
            /\ UNCHANGED lfHead
    /\ UNCHANGED <<lfLen, lfNext, lfPrev, lfOp, lfSnap, lfRm, lfList>>

\* if l.tail.Load() == nil   /   if l.head.Load() == nil
AddCheckEnd(t) ==
    /\ lfPc[t] = "chk"
    /\ LET other == IF lfOp[t] = "front" THEN lfTail ELSE lfHead
       IN lfPc' = [lfPc EXCEPT ![t] = IF other = Nil THEN "fix" ELSE "len"]
    /\ UNCHANGED <<lfHead, lfTail, lfLen, lfNext, lfPrev, lfOp, lfSnap, lfRm, lfList>>

\* l.tail.Store(e)   /   l.head.Store(e)
AddFixEnd(t) ==
    /\ lfPc[t] = "fix"
    /\ IF lfOp[t] = "front"
       THEN lfTail' = t /\ UNCHANGED lfHead
       ELSE lfHead' = t /\ UNCHANGED lfTail
    /\ lfPc' = [lfPc EXCEPT ![t] = "len"]
    /\ UNCHANGED <<lfLen, lfNext, lfPrev, lfOp, lfSnap, lfRm, lfList>>

\* l.len.Add(1); no plugins and no callbacks are registered; return n
AddLen(t) ==
    /\ lfPc[t] = "len"
    /\ lfLen' = lfLen + 1
    /\ lfPc' = [lfPc EXCEPT ![t] = "done"]
    /\ UNCHANGED <<lfHead, lfTail, lfNext, lfPrev, lfOp, lfSnap, lfRm, lfList>>

\* Number of elements linked before the threads start; they follow the
\* threads' elements in the numbering.
LfLinked == 2

LfLinkedElems == (NumThreads + 1)..(NumThreads + LfLinked)

\* The threads that take part when Remove is called.
LfRemovers == {1, 2, 3}

\* The list after AddBack of the elements of LfLinkedElems, in order.
NewLinked ==
    /\ lfHead = NumThreads + 1
    /\ lfTail = NumThreads + LfLinked
    /\ lfLen = LfLinked
    /\ lfNext = [e \in LfElems \cup LfLinkedElems |->
                    IF e \in LfLinkedElems /\ e < NumThreads + LfLinked THEN e + 1 ELSE Nil]
    /\ lfPrev = [e \in LfElems \cup LfLinkedElems |->
                    IF e \in LfLinkedElems /\ e > NumThreads + 1 THEN e - 1 ELSE Nil]
    /\ lfPc = [t \in LfThreads |-> "idle"]
    /\ lfOp = [t \in LfThreads |-> "none"]
    /\ lfSnap = [t \in LfThreads |-> Nil]
    /\ lfRm = [t \in LfThreads |-> LfNoRemove]
    /\ lfList = [e \in LfElems \cup LfLinkedElems |-> TRUE]

\* A caller enters Remove(n), n.element = e: false when n.element.list != l.
Remove(t, e) ==
    /\ lfPc[t] = "idle"
    /\ lfOp' = [lfOp EXCEPT ![t] = "remove"]
    /\ lfRm' = [lfRm EXCEPT ![t] = [LfNoRemove EXCEPT !.elem = e]]
    /\ lfPc' = [lfPc EXCEPT ![t] = IF lfList[e] THEN "rprev" ELSE "done"]
    /\ UNCHANGED <<lfHead, lfTail, lfLen, lfNext, lfPrev, lfSnap, lfList>>

\* prev := elem.prev.Load(), at the top of the for loop
RemoveLoadPrev(t) ==
    /\ lfPc[t] = "rprev"
    /\ lfRm' = [lfRm EXCEPT ![t].prev = lfPrev[lfRm[t].elem]]
    /\ lfPc' = [lfPc EXCEPT ![t] = "rnext"]
    /\ UNCHANGED <<lfHead, lfTail, lfLen, lfNext, lfPrev, lfOp, lfSnap, lfList>>

\* next := elem.next.Load()
RemoveLoadNext(t) ==
    /\ lfPc[t] = "rnext"
    /\ lfRm' = [lfRm EXCEPT ![t].next = lfNext[lfRm[t].elem]]
    /\ lfPc' = [lfPc EXCEPT ![t] = "rcas1"]
    /\ UNCHANGED <<lfHead, lfTail, lfLen, lfNext, lfPrev, lfOp, lfSnap, lfList>>

\* prev.next.CompareAndSwap(elem, next), or l.head.CompareAndSwap(elem, next)
\* when prev == nil; a failed CAS continues the for loop.
RemoveCASPrev(t) ==
    /\ lfPc[t] = "rcas1"
    /\ LET r == lfRm[t]
       IN IF r.prev # Nil
          THEN /\ IF lfNext[r.prev] = r.elem
                  THEN /\ lfNext' = [lfNext EXCEPT ![r.prev] = r.next]
                       /\ lfPc' = [lfPc EXCEPT ![t] = "rcas2"]
                  ELSE /\ lfNext' = lfNext
                       /\ lfPc' = [lfPc EXCEPT ![t] = "rprev"]
               /\ UNCHANGED lfHead
          ELSE /\ IF lfHead = r.elem
                  THEN /\ lfHead' = r.next
                       /\ lfPc' = [lfPc EXCEPT ![t] = "rcas2"]
                  ELSE /\ lfHead' = lfHead
                       /\ lfPc' = [lfPc EXCEPT ![t] = "rprev"]
               /\ UNCHANGED lfNext
    /\ UNCHANGED <<lfTail, lfLen, lfPrev, lfOp, lfSnap, lfRm, lfList>>

\* next.prev.CompareAndSwap(elem, prev), or l.tail.CompareAndSwap(elem, prev)
\* when next == nil; a failed CAS continues the for loop, success breaks.
RemoveCASNext(t) ==
    /\ lfPc[t] = "rcas2"
    /\ LET r == lfRm[t]
       IN IF r.next # Nil
          THEN /\ IF lfPrev[r.next] = r.elem
                  THEN /\ lfPrev' = [lfPrev EXCEPT ![r.next] = r.prev]
                       /\ lfPc' = [lfPc EXCEPT ![t] = "rlen"]
                  ELSE /\ lfPrev' = lfPrev
                       /\ lfPc' = [lfPc EXCEPT ![t] = "rprev"]
               /\ UNCHANGED lfTail
          ELSE /\ IF lfTail = r.elem
                  THEN /\ lfTail' = r.prev
                       /\ lfPc' = [lfPc EXCEPT ![t] = "rlen"]
                  ELSE /\ lfTail' = lfTail
                       /\ lfPc' = [lfPc EXCEPT ![t] = "rprev"]
               /\ UNCHANGED lfPrev
    /\ UNCHANGED <<lfHead, lfLen, lfNext, lfOp, lfSnap, lfRm, lfList>>

\* l.len.Add(-1); no index plugin is attached
RemoveLen(t) ==
    /\ lfPc[t] = "rlen"
    /\ lfLen' = lfLen - 1
    /\ lfPc' = [lfPc EXCEPT ![t] = "rlist"]
    /\ UNCHANGED <<lfHead, lfTail, lfNext, lfPrev, lfOp, lfSnap, lfRm, lfList>>

\* elem.list = nil; no plugins and no callbacks are registered; return true
RemoveUnlist(t) ==
    /\ lfPc[t] = "rlist"
    /\ lfList' = [lfList EXCEPT ![lfRm[t].elem] = FALSE]
    /\ lfRm' = [lfRm EXCEPT ![t].ret = TRUE]
    /\ lfPc' = [lfPc EXCEPT ![t] = "done"]
    /\ UNCHANGED <<lfHead, lfTail, lfLen, lfNext, lfPrev, lfOp, lfSnap>>

\* Walk from element e along the link function f, at most fuel steps.
RECURSIVE LfWalk(_, _, _)
LfWalk(f, e, fuel) ==
    IF e = Nil \/ fuel = 0 THEN <<>>
    ELSE <<e>> \o LfWalk(f, f[e], fuel - 1)

\* The nodes a Traversal from head visits (bounded so that a cycle shows up
\* as an over-long walk).
WalkFromHead == LfWalk(lfNext, lfHead, NumThreads + 1)

\* The nodes met walking prev from the tail.
WalkFromTail == LfWalk(lfPrev, lfTail, NumThreads + 1)

Reverse(s) == [i \in 1..Len(s) |-> s[Len(s) + 1 - i]]

SeqRange(s) == {s[i] : i \in 1..Len(s)}

LfAllReturned == \A t \in LfThreads : lfPc[t] = "done"


(***************************************************************************)
(*                              zset.ZSet                                  *)
(***************************************************************************)

maxLevel == 32

\* Elements are the strings "a" < "b" < ... written 1, 2, ...; string
\* comparison is their integer order.
NumEle == 3

\* Scores are the floats 1.0, 2.0, ...
NumScore == 2

\* Highest level randomLevel() is let to return (it may return 1..maxLevel).
MaxRandLevel == 2

\* Writer threads of the concurrent specification.
ZNumThreads == 2

\* ZAdd / ZRem calls explored.
ZMaxOps == 3

ZEles == 1..NumEle
ZScores == 1..NumScore
ZThreads == 1..ZNumThreads

\* Node ids; a replaced element can leave a second node behind.
ZNodeIds == 1..(NumEle + ZNumThreads)

\* The header node.
ZHdr == -1

ZLevels == 0..(maxLevel - 1)

\* newSkipListNode(level, score, ele)
newSkipListNode(level, score, ele) ==
    [ele |-> ele, score |-> score, backward |-> Nil,
     level |-> [i \in 0..(level - 1) |-> [forward |-> Nil, span |-> 0]]]

\* newSkipList(): header spans start at 1, level at 0
newSkipList ==
    [header |-> [newSkipListNode(maxLevel, 0, 0) EXCEPT
                    !.level = [i \in ZLevels |-> [forward |-> Nil, span |-> 1]]],
     tail |-> Nil, length |-> 0, level |-> 0]

\* NewZSet(): the header lives in nodes under ZHdr
NewZSet ==
    [dict |-> <<>>,
     nodes |-> (ZHdr :> newSkipList.header),
     tail |-> newSkipList.tail,
     length |-> newSkipList.length,
     level |-> newSkipList.level]

\* nxt.score > score || (nxt.score == score && nxt.ele > ele)
ZBefore(n, score, ele) ==
    n.score > score \/ (n.score = score /\ n.ele > ele)

\* The inner loop of one level: move right while the next node orders
\* before (score, ele), adding the spans stepped over to rank.
RECURSIVE ZAdvance(_, _, _, _, _, _)
ZAdvance(nodes, x, i, score, ele, rank) ==
    LET nxt == nodes[x].level[i].forward IN
    IF nxt # Nil /\ ZBefore(nodes[nxt], score, ele)
    THEN ZAdvance(nodes, nxt, i, score, ele, rank + nodes[x].level[i].span)
    ELSE [x |-> x, rank |-> rank]

\* The outer loop, from level i down to 0: records update[i] and rank[i].
RECURSIVE ZDescend(_, _, _, _, _, _, _, _)
ZDescend(nodes, i, x, rank, upd, rk, score, ele) ==
    IF i < 0 THEN [x |-> x, update |-> upd, rank |-> rk]
    ELSE LET r == ZAdvance(nodes, x, i, score, ele, rank)
         IN ZDescend(nodes, i - 1, r.x, r.rank,
                     [upd EXCEPT ![i] = r.x], [rk EXCEPT ![i] = r.rank],
                     score, ele)

\* The search shared by ZRem, ZAdd and ZRank.
ZSearch(z, score, ele) ==
    ZDescend(z.nodes, z.level - 1, ZHdr, 0,
             [i \in ZLevels |-> Nil], [i \in ZLevels |-> 0], score, ele)

\* The first loop of zslDeleteNode, levels i .. len(x.level)-1.
RECURSIVE ZDelLevels(_, _, _, _, _)
ZDelLevels(nodes, x, upd, i, n) ==
    IF i >= n THEN nodes
    ELSE LET u == upd[i]
             lv == nodes[u].level[i]
             nlv == IF lv.forward = x
                    THEN [forward |-> nodes[x].level[i].forward,
                          span |-> lv.span + nodes[x].level[i].span - 1]
                    ELSE [forward |-> lv.forward, span |-> lv.span - 1]
         IN ZDelLevels([nodes EXCEPT ![u].level[i] = nlv], x, upd, i + 1, n)

\* for zsl.level > 1 && zsl.header.level[zsl.level-1].forward == nil { zsl.level-- }
RECURSIVE ZShrinkLevel(_, _)
ZShrinkLevel(nodes, level) ==
    IF level > 1 /\ nodes[ZHdr].level[level - 1].forward = Nil
    THEN ZShrinkLevel(nodes, level - 1)
    ELSE level

\* zslDeleteNode(zsl, x, updatePosNodes); the unlinked node is dropped.
zslDeleteNode(z, x, upd) ==
    LET n1 == ZDelLevels(z.nodes, x, upd, 0, Cardinality(DOMAIN z.nodes[x].level))
        fwd == z.nodes[x].level[0].forward
        n2 == IF fwd # Nil
              THEN [n1 EXCEPT ![fwd].backward = z.nodes[x].backward]
              ELSE n1
        tl == IF fwd # Nil THEN z.tail ELSE z.nodes[x].backward
        n3 == [id \in (DOMAIN n2) \ {x} |-> n2[id]]
    IN [z EXCEPT !.nodes = n3, !.tail = tl,
                 !.level = ZShrinkLevel(n2, z.level),
                 !.length = z.length - 1]

\* ZRem without its delete(zs.dict, ele).
ZRemBody_KeepDict(z, ele) ==
    IF ele \notin DOMAIN z.dict THEN [z |-> z, ret |-> FALSE]
    ELSE LET score == z.dict[ele]
             s == ZSearch(z, score, ele)
             x == z.nodes[s.x].level[0].forward
         IN IF x # Nil /\ z.nodes[x].score = score /\ z.nodes[x].ele = ele
            THEN [z |-> zslDeleteNode(z, x, s.update), ret |-> TRUE]
            ELSE [z |-> z, ret |-> FALSE]

\* The body of ZRem between Lock and Unlock.
ZRemBody(z, ele) ==
    IF ele \notin DOMAIN z.dict THEN [z |-> z, ret |-> FALSE]
    ELSE LET score == z.dict[ele]
             s == ZSearch(z, score, ele)
             x == z.nodes[s.x].level[0].forward
         IN IF x # Nil /\ z.nodes[x].score = score /\ z.nodes[x].ele = ele
            THEN LET d == zslDeleteNode(z, x, s.update)
                 IN [z |-> [d EXCEPT !.dict =
                               [e \in (DOMAIN z.dict) \ {ele} |-> z.dict[e]]],
                     ret |-> TRUE]
            ELSE [z |-> z, ret |-> FALSE]

\* The smallest unused node id (0 when none is left).
ZFreshId(z) ==
    LET free == ZNodeIds \ DOMAIN z.nodes
    IN IF free = {} THEN Nil ELSE CHOOSE id \in free : \A o \in free : id <= o

\* ZAdd, the splice loop: levels i .. curLevel-1 of the new node x.
RECURSIVE ZSplice(_, _, _, _, _, _)
ZSplice(nodes, x, upd, rk, i, curLevel) ==
    IF i >= curLevel THEN nodes
    ELSE LET u == upd[i]
             ul == nodes[u].level[i]
             xl == [forward |-> ul.forward, span |-> ul.span - (rk[0] - rk[i])]
             n1 == [nodes EXCEPT ![x].level[i] = xl]
             n2 == [n1 EXCEPT ![u].level[i] =
                        [forward |-> x, span |-> (rk[0] - rk[i]) + 1]]
         IN ZSplice(n2, x, upd, rk, i + 1, curLevel)

\* ZAdd, the loop over the levels above the new node: span++.
RECURSIVE ZBumpAbove(_, _, _, _)
ZBumpAbove(nodes, upd, i, level) ==
    IF i >= level THEN nodes
    ELSE ZBumpAbove([nodes EXCEPT ![upd[i]].level[i].span = @ + 1], upd, i + 1, level)

\* The body of ZAdd from `this.dict[ele] = score` to the final Unlock, with
\* curLevel the value randomLevel() returned.
ZInsertBody(z, ele, score, curLevel) ==
    LET dict == [e \in (DOMAIN z.dict) \cup {ele} |->
                    IF e = ele THEN score ELSE z.dict[e]]
        s == ZSearch(z, score, ele)
        raise == curLevel > z.level
        upd == [i \in ZLevels |->
                   IF raise /\ i >= z.level /\ i < curLevel THEN ZHdr ELSE s.update[i]]
        rk == [i \in ZLevels |->
                   IF raise /\ i >= z.level /\ i < curLevel THEN 0 ELSE s.rank[i]]
        n0 == IF raise
              THEN [z.nodes EXCEPT ![ZHdr].level =
                       [i \in ZLevels |->
                           IF i >= z.level /\ i < curLevel
                           THEN [forward |-> z.nodes[ZHdr].level[i].forward,
                                 span |-> z.length + 1]
                           ELSE z.nodes[ZHdr].level[i]]]
              ELSE z.nodes
        level == IF raise THEN curLevel ELSE z.level
        x == ZFreshId(z)
        n1 == (x :> newSkipListNode(curLevel, score, ele)) @@ n0
        n2 == ZSplice(n1, x, upd, rk, 0, curLevel)
        n3 == ZBumpAbove(n2, upd, curLevel, level)
        n4 == [n3 EXCEPT ![x].backward = IF upd[0] # ZHdr THEN upd[0] ELSE Nil]
        fwd == n4[x].level[0].forward
        n5 == IF fwd # Nil THEN [n4 EXCEPT ![fwd].backward = x] ELSE n4
    IN [dict |-> dict, nodes |-> n5,
        tail |-> IF fwd # Nil THEN z.tail ELSE x,
        length |-> z.length + 1, level |-> level]

\* ZRank between RLock and RUnlock; -2 stands for the nil dereference of
\* x.level[0].forward.ele.
ZRank(z, ele) ==
    IF ele \notin DOMAIN z.dict THEN [rank |-> -1, ok |-> FALSE]
    ELSE LET s == ZSearch(z, z.dict[ele], ele)
             fwd == z.nodes[s.x].level[0].forward
         IN IF fwd = Nil THEN [rank |-> -2, ok |-> FALSE]
            ELSE IF z.nodes[fwd].ele = ele THEN [rank |-> s.rank[0], ok |-> TRUE]
            ELSE [rank |-> -1, ok |-> FALSE]


\* ZRevRank on one state: ZRank, then length - 1 - rank.
ZRevRank(z, ele) ==
    LET r == ZRank(z, ele)
    IN IF ~r.ok THEN [rank |-> 0, ok |-> FALSE]
       ELSE [rank |-> z.length - 1 - r.rank, ok |-> TRUE]

\* fmt.Sprintf("%s:%.2f", x.ele, x.score): the element and its score, two
\* decimals kept.
ZFormat(n) == [ele |-> n.ele, score100 |-> n.score * 100]

\* ZRange, the inner loop of one level: step right while the span of the
\* link does not pass start.
RECURSIVE ZRangeAdvance(_, _, _, _, _)
ZRangeAdvance(nodes, x, i, curSpan, start) ==
    LET nxt == nodes[x].level[i].forward IN
    IF nxt # Nil /\ ~(curSpan + nodes[x].level[i].span > start)
    THEN ZRangeAdvance(nodes, nxt, i, curSpan + nodes[x].level[i].span, start)
    ELSE [x |-> x, curSpan |-> curSpan]

\* ZRange, the outer loop from level i down to 0.
RECURSIVE ZRangeDescend(_, _, _, _, _)
ZRangeDescend(nodes, i, x, curSpan, start) ==
    IF i < 0 THEN x
    ELSE LET r == ZRangeAdvance(nodes, x, i, curSpan, start)
         IN ZRangeDescend(nodes, i - 1, r.x, r.curSpan, start)

\* ZRange, the collecting loop: x = x.level[0].forward; res[i] = format(x).
\* panic stands for the nil dereference of x.ele.
RECURSIVE ZRangeCollect(_, _, _, _, _)
ZRangeCollect(nodes, x, i, n, res) ==
    IF ~(i <= n /\ x # Nil) THEN [res |-> res, panic |-> FALSE]
    ELSE LET f == nodes[x].level[0].forward
         IN IF f = Nil THEN [res |-> res, panic |-> TRUE]
            ELSE ZRangeCollect(nodes, f, i + 1, n, Append(res, ZFormat(nodes[f])))

\* ZRange(start, stop) between RLock and RUnlock; a nil result is <<>>.
ZRange(z, start, stop) ==
    IF start > stop \/ start >= z.length THEN [res |-> <<>>, panic |-> FALSE]
    ELSE LET stop1 == IF stop >= z.length THEN z.length - 1 ELSE stop
             x == ZRangeDescend(z.nodes, z.level - 1, ZHdr, 0, start)
         IN ZRangeCollect(z.nodes, x, 0, stop1 - start, <<>>)

\* ZRevRange, the first loop: start steps along backward from the tail;
\* short stands for the `return nil` inside the loop.
RECURSIVE ZRevRangeSkip(_, _, _, _)
ZRevRangeSkip(nodes, x, i, start) ==
    IF ~(i < start) THEN [x |-> x, short |-> FALSE]
    ELSE IF nodes[x].backward = Nil THEN [x |-> x, short |-> TRUE]
    ELSE ZRevRangeSkip(nodes, nodes[x].backward, i + 1, start)

\* ZRevRange, the collecting loop: res[i] = format(x); x = x.backward.
\* Entries the loop does not reach stay the empty string (Nil here).
RECURSIVE ZRevRangeCollect(_, _, _, _, _)
ZRevRangeCollect(nodes, x, i, n, res) ==
    IF i > n THEN res
    ELSE IF x = Nil THEN ZRevRangeCollect(nodes, x, i + 1, n, Append(res, Nil))
    ELSE ZRevRangeCollect(nodes, nodes[x].backward, i + 1, n,
                          Append(res, ZFormat(nodes[x])))

\* ZRevRange(start, stop) between RLock and RUnlock; a nil result is <<>>.
ZRevRange(z, start, stop) ==
    IF start > stop \/ start >= z.length THEN <<>>
    ELSE LET stop1 == IF stop >= z.length THEN z.length - 1 ELSE stop
             s == ZRevRangeSkip(z.nodes, z.tail, 0, start)
         IN IF s.short THEN <<>>
            ELSE ZRevRangeCollect(z.nodes, s.x, 0, stop1 - start, <<>>)

\* No ZRevRank call made yet.
ZNoRevRank ==
    [pc |-> "idle", ele |-> 0, rank |-> 0, states |-> {}, ret |-> 0, ok |-> FALSE]

\* The set right after NewZSet(), no call in progress.
ZInitVars ==
    /\ zrr = ZNoRevRank
    /\ zset = NewZSet
    /\ zmu = FALSE
    /\ zpc = [t \in ZThreads |-> "idle"]
    /\ zarg = [t \in ZThreads |-> [ele |-> 0, score |-> 0]]
    /\ zlast = [op |-> "none", ele |-> 0, score |-> 0, ret |-> FALSE, replaced |-> FALSE]
    /\ zOps = 0

\* randomLevel()
randomLevel == 1..MaxRandLevel

\* ---- one caller: every call runs to its return --------------------------

\* ZAdd without its `old == score` early return: every call removes the old
\* node and inserts again.
ZAdd_AlwaysInsert(ele, score) ==
    /\ ~zmu
    /\ zOps < ZMaxOps
    /\ zOps' = zOps + 1
    /\ \E curLevel \in randomLevel :
          LET had == ele \in DOMAIN zset.dict
              z1 == IF had THEN ZRemBody(zset, ele).z ELSE zset
          IN /\ zset' = ZInsertBody(z1, ele, score, curLevel)
             /\ zlast' = [op |-> "ZAdd", ele |-> ele, score |-> score,
                          ret |-> TRUE, replaced |-> had]
    /\ UNCHANGED <<zmu, zpc, zarg>>

\* ZAdd(ele, score) by a single caller.  The `old == score` return leaves
\* mu locked; the replace path unlocks, calls ZRem and locks again.
ZAdd(ele, score) ==
    /\ ~zmu
    /\ zOps < ZMaxOps
    /\ zOps' = zOps + 1
    /\ IF ele \in DOMAIN zset.dict /\ zset.dict[ele] = score
       THEN /\ zmu' = TRUE
            /\ zlast' = [op |-> "ZAdd", ele |-> ele, score |-> score,
                         ret |-> FALSE, replaced |-> FALSE]
            /\ UNCHANGED zset
       ELSE \E curLevel \in randomLevel :
            LET had == ele \in DOMAIN zset.dict
                z1 == IF had THEN ZRemBody(zset, ele).z ELSE zset
            IN /\ zset' = ZInsertBody(z1, ele, score, curLevel)
               /\ zlast' = [op |-> "ZAdd", ele |-> ele, score |-> score,
                            ret |-> TRUE, replaced |-> had]
               /\ UNCHANGED zmu
    /\ UNCHANGED <<zpc, zarg>>

\* ZRem(ele) by a single caller.
ZRem(ele) ==
    /\ ~zmu
    /\ zOps < ZMaxOps
    /\ zOps' = zOps + 1
    /\ LET r == ZRemBody(zset, ele)
       IN /\ zset' = r.z
          /\ zlast' = [op |-> "ZRem", ele |-> ele, score |-> 0,
                       ret |-> r.ret, replaced |-> FALSE]
    /\ UNCHANGED <<zmu, zpc, zarg>>

\* ---- concurrent writers: one step per critical section -------------------

\* ZAdd, first critical section: Lock, look the element up.  Absent: the
\* insertion follows under the same lock.  Present with another score:
\* Unlock before calling ZRem.  Present with the same score: return false
\* with mu still locked.
ZAddLock(t, ele, score) ==
    /\ zpc[t] = "idle"
    /\ ~zmu
    /\ zOps < ZMaxOps
    /\ zOps' = zOps + 1
    /\ IF ele \in DOMAIN zset.dict
       THEN IF zset.dict[ele] = score
            THEN /\ zmu' = TRUE
                 /\ zlast' = [op |-> "ZAdd", ele |-> ele, score |-> score,
                              ret |-> FALSE, replaced |-> FALSE]
                 /\ UNCHANGED <<zset, zpc, zarg>>
            ELSE /\ zpc' = [zpc EXCEPT ![t] = "rem"]
                 /\ zarg' = [zarg EXCEPT ![t] = [ele |-> ele, score |-> score]]
                 /\ UNCHANGED <<zset, zmu, zlast>>
       ELSE \E curLevel \in randomLevel :
            /\ ZFreshId(zset) # Nil
            /\ zset' = ZInsertBody(zset, ele, score, curLevel)
            /\ zlast' = [op |-> "ZAdd", ele |-> ele, score |-> score,
                         ret |-> TRUE, replaced |-> FALSE]
            /\ UNCHANGED <<zmu, zpc, zarg>>

\* ZAdd, the nested this.ZRem(ele): its own Lock ... Unlock.
ZAddRem(t) ==
    /\ zpc[t] = "rem"
    /\ ~zmu
    /\ UNCHANGED zOps
    /\ zset' = ZRemBody(zset, zarg[t].ele).z
    /\ zpc' = [zpc EXCEPT ![t] = "ins"]
    /\ UNCHANGED <<zmu, zarg, zlast>>

\* ZAdd, second critical section: Lock, dict[ele] = score, insert, Unlock.
ZAddInsert(t) ==
    /\ zpc[t] = "ins"
    /\ ~zmu
    /\ UNCHANGED zOps
    /\ ZFreshId(zset) # Nil
    /\ \E curLevel \in randomLevel :
          zset' = ZInsertBody(zset, zarg[t].ele, zarg[t].score, curLevel)
    /\ zlast' = [op |-> "ZAdd", ele |-> zarg[t].ele, score |-> zarg[t].score,
                 ret |-> TRUE, replaced |-> TRUE]
    /\ zpc' = [zpc EXCEPT ![t] = "idle"]
    /\ UNCHANGED <<zmu, zarg>>

\* ZRem called by thread t.
ZRemLocked(t, ele) ==
    /\ zpc[t] = "idle"
    /\ ~zmu
    /\ zOps < ZMaxOps
    /\ zOps' = zOps + 1
    /\ LET r == ZRemBody(zset, ele)
       IN /\ zset' = r.z
          /\ zlast' = [op |-> "ZRem", ele |-> ele, score |-> 0,
                       ret |-> r.ret, replaced |-> FALSE]
    /\ UNCHANGED <<zmu, zpc, zarg>>

ZAllReturned == \A t \in ZThreads : zpc[t] = "idle"

\* ---- a reader beside the writers: ZRevRank ------------------------------

\* What a reader of ele can see of state z: the length and ZRank(ele).
ZStateOf(z, ele) == [length |-> z.length, rank |-> ZRank(z, ele)]

\* A writer's step seen from the ZRevRank call in progress: the state it
\* produces existed during the call.
ZObserve ==
    zrr' = IF zrr.pc \in {"rank", "len"}
           THEN [zrr EXCEPT !.states = @ \cup {ZStateOf(zset', zrr.ele)}]
           ELSE zrr

\* ZRevRank(ele) is called.
ZRevRankCall(ele) ==
    /\ zrr.pc = "idle"
    /\ zrr' = [zrr EXCEPT !.pc = "rank", !.ele = ele,
                          !.states = {ZStateOf(zset, ele)}]
    /\ UNCHANGED <<zset, zmu, zpc, zarg, zlast, zOps>>

\* ZRevRank, `rank, ok := this.ZRank(ele)`: RLock ... RUnlock inside ZRank.
\* Not ok: return (0, false).
ZRevRankRank ==
    /\ zrr.pc = "rank"
    /\ ~zmu
    /\ LET r == ZRank(zset, zrr.ele)
       IN zrr' = IF r.rank = -2 THEN [zrr EXCEPT !.pc = "panic"]
                 ELSE IF ~r.ok THEN [zrr EXCEPT !.pc = "done", !.ret = 0, !.ok = FALSE]
                 ELSE [zrr EXCEPT !.pc = "len", !.rank = r.rank]
    /\ UNCHANGED <<zset, zmu, zpc, zarg, zlast, zOps>>

\* ZRevRank, `return this.skiplist.length - 1 - rank, true`: the length is
\* read with no lock held.
ZRevRankLen ==
    /\ zrr.pc = "len"
    /\ zrr' = [zrr EXCEPT !.pc = "done", !.ok = TRUE,
                          !.ret = zset.length - 1 - zrr.rank]
    /\ UNCHANGED <<zset, zmu, zpc, zarg, zlast, zOps>>

\* ---- observations ---------------------------------------------------------

\* The skip-list nodes in level-0 order, header first.
RECURSIVE ZChain(_, _, _)
ZChain(nodes, x, fuel) ==
    IF x = Nil \/ fuel = 0 THEN <<>>
    ELSE <<x>> \o ZChain(nodes, nodes[x].level[0].forward, fuel - 1)

ZOrder(z) == ZChain(z.nodes, ZHdr, Cardinality(DOMAIN z.nodes) + 1)

\* Position of node id in level-0 order (header = 0).
ZPos(z, id) ==
    LET o == ZOrder(z)
    IN IF \E i \in 1..Len(o) : o[i] = id
       THEN (CHOOSE i \in 1..Len(o) : o[i] = id) - 1
       ELSE -1

\* Real nodes (not the header) linked at level 0.
ZLinked(z) == {ZOrder(z)[i] : i \in 2..Len(ZOrder(z))}

\* Number of present elements ordered before ele.
ZCountBefore(z, ele) ==
    Cardinality({e \in DOMAIN z.dict :
                    e # ele /\ ZBefore([score |-> z.dict[e], ele |-> e],
                                       z.dict[ele], ele)})


(***************************************************************************)
(*                            bptree.BPTree                                *)
(***************************************************************************)

\* The order handed to NewBPTree (any order >= 3 is kept as given).
order == 3

minKeys == order - 1

maxKeys == 2 * order - 1

\* Keys the calls draw from: 1..MaxKey.
MaxKey == 22

\* Values the calls draw from: 1..MaxVal.
MaxVal == 2

\* Calls explored after the scripted prefix.
MaxOps == 1

BpKeys == 1..MaxKey
BpVals == 1..MaxVal

\* compare(a, b) of the int trees: negative, zero or positive
compare(a, b) == a - b

\* insertAt(slice, index, value), index counted from 0
insertAt(slice, index, value) ==
    IF index >= Len(slice) THEN Append(slice, value)
    ELSE SubSeq(slice, 1, index) \o <<value>> \o SubSeq(slice, index + 1, Len(slice))

insertAtNode(slice, index, value) == insertAt(slice, index, value)

insertAtValue(slice, index, value) == insertAt(slice, index, value)

\* slice[from:], from counted from 0
SliceFrom(slice, from) == SubSeq(slice, from + 1, Len(slice))

\* slice[:to]
SliceTo(slice, to) == SubSeq(slice, 1, to)

\* append(slice[:idx], slice[idx+1:]...)
RemoveAt(slice, idx) == SubSeq(slice, 1, idx) \o SubSeq(slice, idx + 2, Len(slice))

\* &leafNode{...}
NewLeaf(keys, values, next) ==
    [leaf |-> TRUE, keys |-> keys, values |-> values, children |-> <<>>, next |-> next]

\* &internalNode{...}
NewInternal(keys, children) ==
    [leaf |-> FALSE, keys |-> keys, values |-> <<>>, children |-> children, next |-> Nil]

\* NewBPTree(order, compare); ev lists the structural steps of the last call.
NewBPTree == [root |-> Nil, leafHeader |-> Nil, heap |-> <<>>, ev |-> {}]

\* A fresh node address.
BpAlloc(t) ==
    LET n == Cardinality(DOMAIN t.heap) + 1
    IN CHOOSE id \in 1..n : id \notin DOMAIN t.heap /\
                            \A o \in 1..n : o \notin DOMAIN t.heap => id <= o

\* leafNode.size(): len(n.keys)
leafNode_size(n) == Len(n.keys)

\* internalNode.size(): len(n.children)
internalNode_size(n) == Len(n.children)

\* node.size(): dispatch on the node kind
size(n) == IF n.leaf THEN leafNode_size(n) ELSE internalNode_size(n)

\* The child-index loop of internalNode.find / insert / delete:
\*   idx := 0; for i, k := range keys { if compare(key, k) < 0 { break }; idx = i + 1 }
RECURSIVE ChildIndex(_, _, _)
ChildIndex(keys, key, i) ==
    IF i >= Len(keys) THEN i
    ELSE IF compare(key, keys[i + 1]) < 0 THEN i
    ELSE ChildIndex(keys, key, i + 1)

\* The scan of leafNode.insert: [hit |-> index of an equal key or -1, idx]
RECURSIVE LeafInsertScan(_, _, _)
LeafInsertScan(keys, key, i) ==
    IF i >= Len(keys) THEN [hit |-> -1, idx |-> i]
    ELSE IF compare(key, keys[i + 1]) = 0 THEN [hit |-> i, idx |-> i]
    ELSE IF compare(key, keys[i + 1]) < 0 THEN [hit |-> -1, idx |-> i]
    ELSE LeafInsertScan(keys, key, i + 1)

\* leafNode.insert that keeps the old value of a present key.
leafNode_insert_NoUpdate(t, id, key, value) ==
    LET n == t.heap[id]
        sc == LeafInsertScan(n.keys, key, 0)
    IN IF sc.hit >= 0
       THEN [t |-> [t EXCEPT !.ev = @ \cup {"update"}],
             newKey |-> 0, newNode |-> Nil, split |-> FALSE]
       ELSE LET keys == insertAt(n.keys, sc.idx, key)
                values == insertAtValue(n.values, sc.idx, value)
            IN IF Len(keys) <= maxKeys
               THEN [t |-> [t EXCEPT !.heap[id].keys = keys,
                                     !.heap[id].values = values],
                     newKey |-> 0, newNode |-> Nil, split |-> FALSE]
               ELSE LET splitIdx == Len(keys) \div 2
                        r == BpAlloc(t)
                        right == NewLeaf(SliceFrom(keys, splitIdx),
                                         SliceFrom(values, splitIdx), n.next)
                        left == [n EXCEPT !.keys = SliceTo(keys, splitIdx),
                                          !.values = SliceTo(values, splitIdx),
                                          !.next = r]
                    IN [t |-> [t EXCEPT !.heap = (r :> right) @@ [t.heap EXCEPT ![id] = left],
                                        !.ev = @ \cup {"leafSplit"}],
                        newKey |-> right.keys[1], newNode |-> r, split |-> TRUE]

\* leafNode.insert whose split leaves the old leaf pointing past the new one.
leafNode_insert_NoLink(t, id, key, value) ==
    LET n == t.heap[id]
        sc == LeafInsertScan(n.keys, key, 0)
    IN IF sc.hit >= 0
       THEN [t |-> [t EXCEPT !.heap[id].values[sc.hit + 1] = value,
                             !.ev = @ \cup {"update"}],
             newKey |-> 0, newNode |-> Nil, split |-> FALSE]
       ELSE LET keys == insertAt(n.keys, sc.idx, key)
                values == insertAtValue(n.values, sc.idx, value)
            IN IF Len(keys) <= maxKeys
               THEN [t |-> [t EXCEPT !.heap[id].keys = keys,
                                     !.heap[id].values = values],
                     newKey |-> 0, newNode |-> Nil, split |-> FALSE]
               ELSE LET splitIdx == Len(keys) \div 2
                        r == BpAlloc(t)
                        right == NewLeaf(SliceFrom(keys, splitIdx),
                                         SliceFrom(values, splitIdx), n.next)
                        left == [n EXCEPT !.keys = SliceTo(keys, splitIdx),
                                          !.values = SliceTo(values, splitIdx)]
                    IN [t |-> [t EXCEPT !.heap = (r :> right) @@ [t.heap EXCEPT ![id] = left],
                                        !.ev = @ \cup {"leafSplit"}],
                        newKey |-> right.keys[1], newNode |-> r, split |-> TRUE]

\* leafNode.insert
leafNode_insert(t, id, key, value) ==
    LET n == t.heap[id]
        sc == LeafInsertScan(n.keys, key, 0)
    IN IF sc.hit >= 0
       THEN [t |-> [t EXCEPT !.heap[id].values[sc.hit + 1] = value,
                             !.ev = @ \cup {"update"}],
             newKey |-> 0, newNode |-> Nil, split |-> FALSE]
       ELSE LET keys == insertAt(n.keys, sc.idx, key)
                values == insertAtValue(n.values, sc.idx, value)
            IN IF Len(keys) <= maxKeys
               THEN [t |-> [t EXCEPT !.heap[id].keys = keys,
                                     !.heap[id].values = values],
                     newKey |-> 0, newNode |-> Nil, split |-> FALSE]
               ELSE LET splitIdx == Len(keys) \div 2
                        r == BpAlloc(t)
                        right == NewLeaf(SliceFrom(keys, splitIdx),
                                         SliceFrom(values, splitIdx), n.next)
                        left == [n EXCEPT !.keys = SliceTo(keys, splitIdx),
                                          !.values = SliceTo(values, splitIdx),
                                          !.next = r]
                    IN [t |-> [t EXCEPT !.heap = (r :> right) @@ [t.heap EXCEPT ![id] = left],
                                        !.ev = @ \cup {"leafSplit"}],
                        newKey |-> right.keys[1], newNode |-> r, split |-> TRUE]

\* internalNode.insert, after the child's insert returned c
internalNode_insert_after(c, id, idx) ==
    IF ~c.split THEN [t |-> c.t, newKey |-> 0, newNode |-> Nil, split |-> FALSE]
    ELSE LET n == c.t.heap[id]
             keys == insertAt(n.keys, idx, c.newKey)
             children == insertAtNode(n.children, idx + 1, c.newNode)
         IN IF Len(keys) <= maxKeys
            THEN [t |-> [c.t EXCEPT !.heap[id].keys = keys,
                                    !.heap[id].children = children],
                  newKey |-> 0, newNode |-> Nil, split |-> FALSE]
            ELSE LET splitIdx == Len(keys) \div 2
                     promotedKey == keys[splitIdx + 1]
                     r == BpAlloc(c.t)
                     right == NewInternal(SliceFrom(keys, splitIdx + 1),
                                          SliceFrom(children, splitIdx + 1))
                     left == [n EXCEPT !.keys = SliceTo(keys, splitIdx),
                                       !.children = SliceTo(children, splitIdx + 1)]
                 IN [t |-> [c.t EXCEPT !.heap = (r :> right) @@ [c.t.heap EXCEPT ![id] = left],
                                       !.ev = @ \cup {"internalSplit"}],
                     newKey |-> promotedKey, newNode |-> r, split |-> TRUE]

\* node.insert: dispatch on the node kind
RECURSIVE node_insert(_, _, _, _)
node_insert(t, id, key, value) ==
    IF t.heap[id].leaf THEN leafNode_insert(t, id, key, value)
    ELSE LET idx == ChildIndex(t.heap[id].keys, key, 0)
             c == node_insert(t, t.heap[id].children[idx + 1], key, value)
         IN internalNode_insert_after(c, id, idx)

\* BPTree.Insert
BPTree_Insert(t0, key, value) ==
    LET t1 == IF t0.root = Nil
              THEN [t0 EXCEPT !.root = BpAlloc(t0), !.leafHeader = BpAlloc(t0),
                              !.heap = (BpAlloc(t0) :> NewLeaf(<<>>, <<>>, Nil)),
                              !.ev = {}]
              ELSE [t0 EXCEPT !.ev = {}]
        c == node_insert(t1, t1.root, key, value)
    IN IF c.split
       THEN LET nr == BpAlloc(c.t)
            IN [c.t EXCEPT !.heap = (nr :> NewInternal(<<c.newKey>>, <<c.t.root, c.newNode>>)) @@ c.t.heap,
                           !.root = nr,
                           !.ev = @ \cup {"newRoot"}]
       ELSE c.t


\* The scan of leafNode.delete: index of the first equal key, or -1
RECURSIVE LeafDeleteScan(_, _, _)
LeafDeleteScan(keys, key, i) ==
    IF i >= Len(keys) THEN -1
    ELSE IF compare(key, keys[i + 1]) = 0 THEN i
    ELSE LeafDeleteScan(keys, key, i + 1)

\* leafNode.delete
leafNode_delete(t, id, key) ==
    LET n == t.heap[id]
        idx == LeafDeleteScan(n.keys, key, 0)
    IN IF idx = -1 THEN [t |-> t, deleted |-> FALSE]
       ELSE [t |-> [t EXCEPT !.heap[id].keys = RemoveAt(n.keys, idx),
                             !.heap[id].values = RemoveAt(n.values, idx)],
             deleted |-> TRUE]

\* borrowFromLeft with the parent separator left as it was.
borrowFromLeft_KeepSeparator(t, parent, idx) ==
    LET p == t.heap[parent]
        c == p.children[idx + 1]
        l == p.children[idx]
        child == t.heap[c]
        leftSibling == t.heap[l]
    IN IF child.leaf
       THEN LET lastIdx == size(leftSibling) - 1
            IN [t EXCEPT !.heap[c].keys = insertAt(child.keys, 0, leftSibling.keys[lastIdx + 1]),
                         !.heap[c].values =
                             insertAtValue(child.values, 0, leftSibling.values[lastIdx + 1]),
                         !.heap[l].keys = SliceTo(leftSibling.keys, lastIdx),
                         !.heap[l].values = SliceTo(leftSibling.values, lastIdx),
                         !.ev = @ \cup {"borrowLeftLeaf"}]
       ELSE LET lastKeyIdx == Len(leftSibling.keys) - 1
                lastChildIdx == Len(leftSibling.children) - 1
            IN [t EXCEPT !.heap[c].keys = insertAt(child.keys, 0, p.keys[idx]),
                         !.heap[c].children =
                             insertAtNode(child.children, 0,
                                          leftSibling.children[lastChildIdx + 1]),
                         !.heap[l].keys = SliceTo(leftSibling.keys, lastKeyIdx),
                         !.heap[l].children = SliceTo(leftSibling.children, lastChildIdx),
                         !.ev = @ \cup {"borrowLeftInternal"}]

\* BPTree.borrowFromLeft(parent, idx)
borrowFromLeft(t, parent, idx) ==
    LET p == t.heap[parent]
        c == p.children[idx + 1]
        l == p.children[idx]
        child == t.heap[c]
        leftSibling == t.heap[l]
    IN IF child.leaf
       THEN LET lastIdx == size(leftSibling) - 1
                keys == insertAt(child.keys, 0, leftSibling.keys[lastIdx + 1])
                values == insertAtValue(child.values, 0, leftSibling.values[lastIdx + 1])
            IN [t EXCEPT !.heap[c].keys = keys,
                         !.heap[c].values = values,
                         !.heap[l].keys = SliceTo(leftSibling.keys, lastIdx),
                         !.heap[l].values = SliceTo(leftSibling.values, lastIdx),
                         !.heap[parent].keys[idx] = keys[1],
                         !.ev = @ \cup {"borrowLeftLeaf"}]
       ELSE LET lastKeyIdx == Len(leftSibling.keys) - 1
                parentKey == p.keys[idx]
                lastChildIdx == Len(leftSibling.children) - 1
            IN [t EXCEPT !.heap[parent].keys[idx] = leftSibling.keys[lastKeyIdx + 1],
                         !.heap[c].keys = insertAt(child.keys, 0, parentKey),
                         !.heap[c].children =
                             insertAtNode(child.children, 0,
                                          leftSibling.children[lastChildIdx + 1]),
                         !.heap[l].keys = SliceTo(leftSibling.keys, lastKeyIdx),
                         !.heap[l].children = SliceTo(leftSibling.children, lastChildIdx),
                         !.ev = @ \cup {"borrowLeftInternal"}]

\* BPTree.borrowFromRight(parent, idx)
borrowFromRight(t, parent, idx) ==
    LET p == t.heap[parent]
        c == p.children[idx + 1]
        r == p.children[idx + 2]
        child == t.heap[c]
        rightSibling == t.heap[r]
    IN IF child.leaf
       THEN LET rkeys == SliceFrom(rightSibling.keys, 1)
            IN [t EXCEPT !.heap[c].keys = Append(child.keys, rightSibling.keys[1]),
                         !.heap[c].values = Append(child.values, rightSibling.values[1]),
                         !.heap[r].keys = rkeys,
                         !.heap[r].values = SliceFrom(rightSibling.values, 1),
                         !.heap[parent].keys[idx + 1] = rkeys[1],
                         !.ev = @ \cup {"borrowRightLeaf"}]
       ELSE LET parentKey == p.keys[idx + 1]
            IN [t EXCEPT !.heap[parent].keys[idx + 1] = rightSibling.keys[1],
                         !.heap[c].keys = Append(child.keys, parentKey),
                         !.heap[c].children = Append(child.children, rightSibling.children[1]),
                         !.heap[r].keys = SliceFrom(rightSibling.keys, 1),
                         !.heap[r].children = SliceFrom(rightSibling.children, 1),
                         !.ev = @ \cup {"borrowRightInternal"}]

\* BPTree.mergeNodes(parent, idx): the right node is dropped
mergeNodes(t, parent, idx) ==
    LET p == t.heap[parent]
        l == p.children[idx + 1]
        r == p.children[idx + 2]
        left == t.heap[l]
        right == t.heap[r]
        merged == IF left.leaf
                  THEN [left EXCEPT !.keys = left.keys \o right.keys,
                                    !.values = left.values \o right.values,
                                    !.next = right.next]
                  ELSE [left EXCEPT !.keys = Append(left.keys, p.keys[idx + 1]) \o right.keys,
                                    !.children = left.children \o right.children]
        np == [p EXCEPT !.keys = RemoveAt(p.keys, idx),
                        !.children = RemoveAt(p.children, idx + 1)]
        h == [t.heap EXCEPT ![l] = merged, ![parent] = np]
    IN [t EXCEPT !.heap = [id \in (DOMAIN h) \ {r} |-> h[id]],
                 !.ev = @ \cup {IF left.leaf THEN "mergeLeaf" ELSE "mergeInternal"}]

\* BPTree.handleUnderflow(parent, idx)
handleUnderflow(t, parent, idx) ==
    LET p == t.heap[parent]
    IN IF idx > 0 /\ size(t.heap[p.children[idx]]) > minKeys
       THEN borrowFromLeft(t, parent, idx)
       ELSE IF idx < Len(p.children) - 1 /\ size(t.heap[p.children[idx + 2]]) > minKeys
       THEN borrowFromRight(t, parent, idx)
       ELSE IF idx > 0 THEN mergeNodes(t, parent, idx - 1)
       ELSE mergeNodes(t, parent, idx)

\* internalNode.delete, after the child's delete returned c
internalNode_delete_after(c, id, idx) ==
    IF ~c.deleted THEN [t |-> c.t, deleted |-> FALSE]
    ELSE IF size(c.t.heap[c.t.heap[id].children[idx + 1]]) < minKeys
    THEN [t |-> handleUnderflow(c.t, id, idx), deleted |-> TRUE]
    ELSE [t |-> c.t, deleted |-> TRUE]

\* node.delete: dispatch on the node kind
RECURSIVE node_delete(_, _, _)
node_delete(t, id, key) ==
    IF t.heap[id].leaf THEN leafNode_delete(t, id, key)
    ELSE LET idx == ChildIndex(t.heap[id].keys, key, 0)
             c == node_delete(t, t.heap[id].children[idx + 1], key)
         IN internalNode_delete_after(c, id, idx)

\* BPTree.Delete: [t, deleted]
BPTree_Delete(t0, key) ==
    IF t0.root = Nil THEN [t |-> [t0 EXCEPT !.ev = {}], deleted |-> FALSE]
    ELSE LET c == node_delete([t0 EXCEPT !.ev = {}], t0.root, key)
             rt == c.t.heap[c.t.root]
         IN IF ~rt.leaf /\ internalNode_size(rt) = 1
            THEN [t |-> [c.t EXCEPT !.root = rt.children[1],
                                    !.heap = [id \in (DOMAIN c.t.heap) \ {c.t.root} |-> c.t.heap[id]],
                                    !.ev = @ \cup {"rootCollapse"}],
                  deleted |-> c.deleted]
            ELSE c

\* leafNode.find: [v, ok], the zero value written 0
RECURSIVE leafNode_find(_, _, _)
leafNode_find(n, key, i) ==
    IF i >= Len(n.keys) THEN [v |-> 0, ok |-> FALSE]
    ELSE IF compare(key, n.keys[i + 1]) = 0 THEN [v |-> n.values[i + 1], ok |-> TRUE]
    ELSE IF compare(key, n.keys[i + 1]) < 0 THEN [v |-> 0, ok |-> FALSE]
    ELSE leafNode_find(n, key, i + 1)

\* node.find / internalNode.find
RECURSIVE node_find(_, _, _)
node_find(t, id, key) ==
    IF t.heap[id].leaf THEN leafNode_find(t.heap[id], key, 0)
    ELSE node_find(t, t.heap[id].children[ChildIndex(t.heap[id].keys, key, 0) + 1], key)

\* BPTree.Find
BPTree_Find(t, key) ==
    IF t.root = Nil THEN [v |-> 0, ok |-> FALSE] ELSE node_find(t, t.root, key)

\* BPTree.findInsertPosition: binary search
RECURSIVE findInsertPosition(_, _, _, _)
findInsertPosition(keys, key, low, high) ==
    IF low >= high THEN low
    ELSE LET mid == (low + high) \div 2
         IN IF compare(key, keys[mid + 1]) < 0
            THEN findInsertPosition(keys, key, low, mid)
            ELSE findInsertPosition(keys, key, mid + 1, high)

\* BPTree.findLeaf
RECURSIVE findLeafFrom(_, _, _)
findLeafFrom(t, current, key) ==
    IF t.heap[current].leaf THEN current
    ELSE LET internal == t.heap[current]
             idx == findInsertPosition(internal.keys, key, 0, Len(internal.keys))
         IN findLeafFrom(t, internal.children[idx + 1], key)

findLeaf(t, key) == IF t.root = Nil THEN Nil ELSE findLeafFrom(t, t.root, key)

\* The loops of RangeQuery from key i of leaf current on
RECURSIVE RangeScan(_, _, _, _, _, _)
RangeScan(t, current, i, start, end, results) ==
    IF current = Nil THEN results
    ELSE LET n == t.heap[current] IN
         IF i >= Len(n.keys) THEN RangeScan(t, n.next, 0, start, end, results)
         ELSE LET cmpStart == compare(n.keys[i + 1], start)
                  cmpEnd == compare(n.keys[i + 1], end)
              IN IF cmpStart >= 0 /\ cmpEnd <= 0
                 THEN RangeScan(t, current, i + 1, start, end, Append(results, n.values[i + 1]))
                 ELSE IF cmpEnd > 0 THEN results
                 ELSE RangeScan(t, current, i + 1, start, end, results)

\* RangeQuery that stops at the end of the leaf findLeaf returned.
RangeQuery_OneLeaf(t, start, end) ==
    IF t.root = Nil THEN <<>>
    ELSE LET lf == findLeaf(t, start)
         IN RangeScan([t EXCEPT !.heap[lf].next = Nil], lf, 0, start, end, <<>>)

\* BPTree.RangeQuery
RangeQuery(t, start, end) ==
    IF t.root = Nil THEN <<>>
    ELSE RangeScan(t, findLeaf(t, start), 0, start, end, <<>>)


\* ---- calls ------------------------------------------------------------------

\* The map with no key: every key maps to 0 (values are 1..MaxVal).
BpNoKeys == [k \in BpKeys |-> 0]

\* A call sequence applied to a tree and to the map it should equal.
RECURSIVE BpRun(_, _, _)
BpRun(st, script, i) ==
    IF i > Len(script) \/ st.t.root < 0 THEN st
    ELSE LET c == script[i]
         IN IF c.op = "Insert"
            THEN BpRun([t |-> BPTree_Insert(st.t, c.key, c.val),
                        m |-> [st.m EXCEPT ![c.key] = c.val]], script, i + 1)
            ELSE BpRun([t |-> BPTree_Delete(st.t, c.key).t,
                        m |-> [st.m EXCEPT ![c.key] = 0]], script, i + 1)

\* Insert calls for keys, the value of key k being (k % MaxVal) + 1.
Inserts(keys) ==
    [i \in 1..Len(keys) |->
        [op |-> "Insert", key |-> keys[i], val |-> (keys[i] % MaxVal) + 1]]

Deletes(keys) ==
    [i \in 1..Len(keys) |-> [op |-> "Delete", key |-> keys[i], val |-> 0]]

\* Ascending load of 1..n.  n = 5 fills the root leaf, n = 20 fills the root
\* of a two-level tree, n = 21 gives seven leaves of three keys under two
\* internal nodes under the root.
BpLoad(n) == Inserts([i \in 1..n |-> i])

\* Descending load of n..1.
BpLoadDesc(n) == Inserts([i \in 1..n |-> n + 1 - i])

\* Call prefixes the exploration starts from: the empty tree, the loaded
\* trees, the three-level tree with one leaf thinned to two keys, and the
\* three-level tree with the leaves under the right / left / both internal
\* nodes thinned out to two leaves.
BpScripts ==
    { <<>>,
      BpLoad(5),
      BpLoad(20),
      BpLoad(21),
      BpLoadDesc(21),
      BpLoad(21) \o Deletes(<<1>>),
      BpLoad(21) \o Deletes(<<4>>),
      BpLoad(21) \o Deletes(<<13, 14, 16, 19, 15>>),
      BpLoad(21) \o Deletes(<<1, 2, 4, 7, 8, 10, 9, 3>>),
      BpLoad(21) \o Deletes(<<13, 14, 16, 19, 15, 1, 2, 4, 7, 8, 10>>) }

\* The prefixes the range-query exploration starts from.
BpRangeScripts ==
    { <<>>,
      BpLoad(5),
      BpLoad(20),
      BpLoad(21) \o Deletes(<<1, 2, 4, 7, 8, 10, 9, 3>>) }

\* The keys the range-query exploration inserts and deletes: the odd ones.
BpRangeKeys == {k \in BpKeys : k % 2 = 1}

\* The tree right after NewBPTree(order, compare), no call made.
BpInitVars ==
    /\ bpt = NewBPTree
    /\ bpShadow = BpNoKeys
    /\ bpOps = 0
    /\ bpLast = [op |-> "none", key |-> 0, val |-> 0, ret |-> FALSE, had |-> FALSE]

\* The tree after one of the call prefixes.
BpInit(scripts) ==
    /\ \E script \in scripts :
          LET st == BpRun([t |-> NewBPTree, m |-> BpNoKeys], script, 1)
          IN /\ bpt = [st.t EXCEPT !.ev = {}]
             /\ bpShadow = st.m
    /\ bpOps = 0
    /\ bpLast = [op |-> "none", key |-> 0, val |-> 0, ret |-> FALSE, had |-> FALSE]

\* t.Insert(key, value)
Insert(key, value) ==
    /\ bpOps < MaxOps
    /\ bpt' = BPTree_Insert(bpt, key, value)
    /\ bpShadow' = [bpShadow EXCEPT ![key] = value]
    /\ bpLast' = [op |-> "Insert", key |-> key, val |-> value, ret |-> TRUE,
                  had |-> bpShadow[key] # 0]
    /\ bpOps' = bpOps + 1

\* t.Delete(key)
Delete(key) ==
    /\ bpOps < MaxOps
    /\ LET r == BPTree_Delete(bpt, key)
       IN /\ bpt' = r.t
          /\ bpLast' = [op |-> "Delete", key |-> key, val |-> 0, ret |-> r.deleted,
                        had |-> bpShadow[key] # 0]
    /\ bpShadow' = [bpShadow EXCEPT ![key] = 0]
    /\ bpOps' = bpOps + 1

\* ---- observations -----------------------------------------------------------

\* Node ids in the subtree under id.
RECURSIVE BpSubtree(_, _)
BpSubtree(t, id) ==
    IF t.heap[id].leaf THEN {id}
    ELSE {id} \cup UNION {BpSubtree(t, t.heap[id].children[i]) :
                             i \in 1..Len(t.heap[id].children)}

BpNodes(t) == IF t.root = Nil THEN {} ELSE BpSubtree(t, t.root)

\* Keys stored in the leaves under id.
BpKeysUnder(t, id) ==
    UNION {SeqRange(t.heap[n].keys) : n \in {m \in BpSubtree(t, id) : t.heap[m].leaf}}

\* The leftmost leaf under id.
RECURSIVE BpLeftmost(_, _)
BpLeftmost(t, id) ==
    IF t.heap[id].leaf THEN id ELSE BpLeftmost(t, t.heap[id].children[1])

\* The keys met walking next from leaf id, and whether the walk ended at
\* nil within fuel leaves.
RECURSIVE BpLeafWalk(_, _, _)
BpLeafWalk(t, id, fuel) ==
    IF id = Nil THEN [keys |-> <<>>, ended |-> TRUE]
    ELSE IF fuel = 0 \/ id \notin DOMAIN t.heap THEN [keys |-> <<>>, ended |-> FALSE]
    ELSE LET rest == BpLeafWalk(t, t.heap[id].next, fuel - 1)
         IN [keys |-> t.heap[id].keys \o rest.keys, ended |-> rest.ended]

\* The walk from t.leafHeader.
BpLeafChain(t) == BpLeafWalk(t, t.leafHeader, Cardinality(DOMAIN t.heap) + 1)

\* The keys from lo on that map m holds, ascending.
RECURSIVE BpExpectKeys(_, _)
BpExpectKeys(m, lo) ==
    IF lo > MaxKey THEN <<>>
    ELSE (IF m[lo] # 0 THEN <<lo>> ELSE <<>>) \o BpExpectKeys(m, lo + 1)

\* Values of the keys lo..hi of map m, ascending by key.
RECURSIVE BpExpectRange(_, _, _)
BpExpectRange(m, lo, hi) ==
    IF lo > hi THEN <<>>
    ELSE (IF lo \in DOMAIN m /\ m[lo] # 0 THEN <<m[lo]>> ELSE <<>>)
         \o BpExpectRange(m, lo + 1, hi)

(***************************************************************************)
(*            lockfreelist.List with plugins, one caller                   *)
(***************************************************************************)

\* Keys and values passed to the calls.
SlNumKeys == 2

SlNumVals == 2

\* Largest capacity given to NewLRUCache.
SlMaxCap == 2

\* Calls explored.
SlMaxOps == 3

\* The update callbacks the caller registers on a list, in this order.
SlCallbacks == {1, 2}

\* Two lists built side by side (a node of one is foreign to the other).
SlLists == {1, 2}
SlKeys == 1..SlNumKeys
SlVals == 1..SlNumVals

\* NewConcurrentList, NewIndexedList, NewLRUCache(capacity): the plugins in
\* the order the builder attaches them.
NewConcurrentList == [plugins |-> <<"Concurrent">>, capacity |-> 0]

NewIndexedList == [plugins |-> <<"Concurrent", "Index">>, capacity |-> 0]

NewLRUCache(capacity) ==
    [plugins |-> <<"Concurrent", "Index", "LRU">>, capacity |-> capacity]

\* Plugin.Capabilities()
Capabilities(p) ==
    CASE p = "Concurrent" -> "CapConcurrentSafe"
      [] p = "Index" -> "CapIndexed"
      [] p = "LRU" -> "CapLRU"

\* New(plugins...): one list; index[k] = 0 stands for "no entry for k",
\* onInsert, onRemove and onUpdate are the numbers of callbacks in l.onInsert,
\* l.onRemove and l.onUpdate.
NewList(cfg) ==
    [head |-> Nil, tail |-> Nil, len |-> 0,
     plugins |-> cfg.plugins, capacity |-> cfg.capacity,
     index |-> [k \in SlKeys |-> Nil], onInsert |-> 0, onRemove |-> 0,
     onUpdate |-> 0]

\* List.OnInsert(f): one more insert callback.
List_OnInsert(s, l) == [s EXCEPT !.lists[l].onInsert = @ + 1]

\* List.OnRemove(f): one more remove callback.
List_OnRemove(s, l) == [s EXCEPT !.lists[l].onRemove = @ + 1]

\* List.OnUpdate(f): one more update callback.
List_OnUpdate(s, l) == [s EXCEPT !.lists[l].onUpdate = @ + 1]

\* List.HasCapability
HasCapability(s, l, cap) ==
    \E i \in 1..Len(s.lists[l].plugins) : Capabilities(s.lists[l].plugins[i]) = cap

\* Node.IsValid for a node whose element is e
IsValid(s, e) == e # Nil /\ s.elems[e].list # Nil

\* List.Len
ListLen(s, l) == s.lists[l].len

\* BackNode that returns the head node.
BackNode_Head(s, l) == s.lists[l].head

\* List.BackNode: the element of the node returned (Nil for a nil node)
BackNode(s, l) == s.lists[l].tail

\* IndexPlugin.OnInsert(n), n.element = e
IndexPlugin_OnInsert(s, e) ==
    IF e = Nil \/ s.elems[e].list = Nil THEN s
    ELSE [s EXCEPT !.lists[s.elems[e].list].index[s.elems[e].key] = e]

\* IndexPlugin.OnRemove(n), n.element = e
IndexPlugin_OnRemove(s, e) ==
    IF e = Nil \/ s.elems[e].list = Nil THEN s
    ELSE [s EXCEPT !.lists[s.elems[e].list].index[s.elems[e].key] = Nil]

\* The elements met walking next from e (fuel bounds a cyclic chain).
RECURSIVE SlWalkNext(_, _, _)
SlWalkNext(s, e, fuel) ==
    IF e = Nil \/ fuel = 0 THEN <<>>
    ELSE <<e>> \o SlWalkNext(s, s.elems[e].next, fuel - 1)

SlFromHead(s, l) == SlWalkNext(s, s.lists[l].head, Len(s.elems) + 1)

\* One entry of s.log: hook i of its kind is called for the node holding
\* element n; len is l.Len() and linked tells whether n is reached from l.head
\* at that moment, count how many elements are.
SlEvent(s, l, kind, hook, i, n) ==
    LET w == SlFromHead(s, l)
    IN [kind |-> kind, hook |-> hook, i |-> i, n |-> n, len |-> s.lists[l].len,
        linked |-> \E j \in 1..Len(w) : w[j] = n, count |-> Len(w)]

\* The heap after hook i of its kind has been called for n: the call is
\* entered in s.log when the calls are being recorded (s.observe).
SlLog(s, l, kind, hook, i, n) ==
    IF s.observe THEN [s EXCEPT !.log = Append(@, SlEvent(s, l, kind, hook, i, n))] ELSE s

\* The plugins' OnRemove, in order (ConcurrentPlugin and LRUPlugin do nothing).
RECURSIVE PluginsOnRemove(_, _, _, _)
PluginsOnRemove(s, l, e, i) ==
    IF i > Len(s.lists[l].plugins) THEN s
    ELSE PluginsOnRemove(IF s.lists[l].plugins[i] = "Index"
                         THEN IndexPlugin_OnRemove(
                                  SlLog(s, l, "remove", "plugin", i, e),
                                  e)
                         ELSE SlLog(s, l, "remove", "plugin", i, e),
                         l, e, i + 1)

\* The loop over l.onRemove that ends Remove: cb(n) for every remove callback,
\* in order; a callback only sees its argument.
RemoveCallbacks(s, l, e) ==
    IF ~s.observe THEN s
    ELSE [s EXCEPT !.log = @ \o [j \in 1..s.lists[l].onRemove |->
                                    SlEvent(s, l, "remove", "callback", j, e)]]

\* List.Remove that fires the plugin hooks and the callbacks before
\* l.len.Add(-1) and elem.list = nil.
List_Remove_HooksBeforeLen(s, l, e) ==
    IF e = Nil \/ s.elems[e].list # l THEN [s |-> s, ret |-> FALSE]
    ELSE LET prev == s.elems[e].prev
             next == s.elems[e].next
             cas1 == IF prev # Nil THEN s.elems[prev].next = e
                     ELSE s.lists[l].head = e
             s1 == IF ~cas1 THEN s
                   ELSE IF prev # Nil THEN [s EXCEPT !.elems[prev].next = next]
                   ELSE [s EXCEPT !.lists[l].head = next]
             cas2 == IF next # Nil THEN s1.elems[next].prev = e
                     ELSE s1.lists[l].tail = e
             s2 == IF ~cas2 THEN s1
                   ELSE IF next # Nil THEN [s1 EXCEPT !.elems[next].prev = prev]
                   ELSE [s1 EXCEPT !.lists[l].tail = prev]
         IN IF ~cas1 \/ ~cas2 THEN [s |-> [s2 EXCEPT !.hang = TRUE], ret |-> FALSE]
            ELSE LET s3 == IF HasCapability(s2, l, "CapIndexed")
                           THEN [s2 EXCEPT !.lists[l].index[s2.elems[e].key] = Nil]
                           ELSE s2
                 IN [s |-> [RemoveCallbacks(PluginsOnRemove(s3, l, e, 1), l, e)
                               EXCEPT !.lists[l].len = @ - 1, !.elems[e].list = Nil],
                     ret |-> TRUE]

\* List.Remove that leaves l.tail alone when the tail node is removed.
List_Remove_KeepTail(s, l, e) ==
    IF e = Nil \/ s.elems[e].list # l THEN [s |-> s, ret |-> FALSE]
    ELSE LET prev == s.elems[e].prev
             next == s.elems[e].next
             cas1 == IF prev # Nil THEN s.elems[prev].next = e
                     ELSE s.lists[l].head = e
             s1 == IF ~cas1 THEN s
                   ELSE IF prev # Nil THEN [s EXCEPT !.elems[prev].next = next]
                   ELSE [s EXCEPT !.lists[l].head = next]
             cas2 == IF next # Nil THEN s1.elems[next].prev = e
                     ELSE s1.lists[l].tail = e
             s2 == IF ~cas2 THEN s1
                   ELSE IF next # Nil THEN [s1 EXCEPT !.elems[next].prev = prev]
                   ELSE s1
         IN IF ~cas1 \/ ~cas2 THEN [s |-> [s2 EXCEPT !.hang = TRUE], ret |-> FALSE]
            ELSE LET s3 == IF HasCapability(s2, l, "CapIndexed")
                           THEN [s2 EXCEPT !.lists[l].index[s2.elems[e].key] = Nil]
                           ELSE s2
                     s4 == [s3 EXCEPT !.lists[l].len = @ - 1,
                                      !.elems[e].list = Nil]
                 IN [s |-> RemoveCallbacks(PluginsOnRemove(s4, l, e, 1), l, e), ret |-> TRUE]

\* List.Remove(n), n.element = e: [s, ret].  With one caller a failed
\* CompareAndSwap is retried on unchanged memory for ever: s.hang.
List_Remove(s, l, e) ==
    IF e = Nil \/ s.elems[e].list # l THEN [s |-> s, ret |-> FALSE]
    ELSE LET prev == s.elems[e].prev
             next == s.elems[e].next
             cas1 == IF prev # Nil THEN s.elems[prev].next = e
                     ELSE s.lists[l].head = e
             s1 == IF ~cas1 THEN s
                   ELSE IF prev # Nil THEN [s EXCEPT !.elems[prev].next = next]
                   ELSE [s EXCEPT !.lists[l].head = next]
             cas2 == IF next # Nil THEN s1.elems[next].prev = e
                     ELSE s1.lists[l].tail = e
             s2 == IF ~cas2 THEN s1
                   ELSE IF next # Nil THEN [s1 EXCEPT !.elems[next].prev = prev]
                   ELSE [s1 EXCEPT !.lists[l].tail = prev]
         IN IF ~cas1 \/ ~cas2 THEN [s |-> [s2 EXCEPT !.hang = TRUE], ret |-> FALSE]
            ELSE LET s3 == IF HasCapability(s2, l, "CapIndexed")
                           THEN [s2 EXCEPT !.lists[l].index[s2.elems[e].key] = Nil]
                           ELSE s2
                     s4 == [s3 EXCEPT !.lists[l].len = @ - 1,
                                      !.elems[e].list = Nil]
                 IN [s |-> RemoveCallbacks(PluginsOnRemove(s4, l, e, 1), l, e), ret |-> TRUE]

\* An eviction loop that removes nothing.
LRUEvict_None(s, l, capacity) == s

\* The eviction loop of LRUPlugin.OnInsert.  tail is a fresh *Node from
\* BackNode, so the pointer comparison tail == n is never true.
RECURSIVE LRUEvict(_, _, _)
LRUEvict(s, l, capacity) ==
    IF s.hang \/ ~(ListLen(s, l) > capacity) THEN s
    ELSE LET tail == BackNode(s, l)
         IN IF tail = Nil \/ ~IsValid(s, tail) THEN s
            ELSE LET r == List_Remove(s, l, tail)
                 IN IF ~r.ret THEN r.s ELSE LRUEvict(r.s, l, capacity)

\* LRUPlugin.OnInsert after moved := list.MoveToFront(n), m the outcome of
\* that call: [s, n].
LRUAfterMove(m, list, capacity) ==
    IF ~m.ret \/ ~IsValid(m.s, m.n) THEN [s |-> m.s, n |-> m.n]
    ELSE [s |-> LRUEvict(m.s, list, capacity), n |-> m.n]

RECURSIVE List_AddFront(_, _, _, _)
RECURSIVE List_MoveToFront(_, _, _)
RECURSIVE LRUPlugin_OnInsert(_, _, _)
RECURSIVE PluginsOnInsert(_, _, _)

\* LRUPlugin.OnInsert(n) of the plugin with this capacity: [s, n], n the
\* element the node holds afterwards.
LRUPlugin_OnInsert(s, e, capacity) ==
    IF e = Nil \/ ~IsValid(s, e) THEN [s |-> s, n |-> e]
    ELSE LRUAfterMove(List_MoveToFront(s, s.elems[e].list, e), s.elems[e].list, capacity)

\* The plugins' OnInsert, in order from plugin i on, on the node r.n in heap
\* r.s: [s, n].
PluginsOnInsert(r, l, i) ==
    IF i > Len(r.s.lists[l].plugins) \/ r.s.hang THEN r
    ELSE PluginsOnInsert(
             IF r.s.lists[l].plugins[i] = "Index"
             THEN [s |-> IndexPlugin_OnInsert(
                             SlLog(r.s, l, "insert", "plugin", i, r.n),
                             r.n),
                   n |-> r.n]
             ELSE IF r.s.lists[l].plugins[i] = "LRU"
             THEN LRUPlugin_OnInsert(
                      SlLog(r.s, l, "insert", "plugin", i, r.n),
                      r.n, r.s.lists[l].capacity)
             ELSE [s |-> SlLog(r.s, l, "insert", "plugin", i, r.n),
                   n |-> r.n],
             l, i + 1)

\* The loop over l.onInsert that ends AddFront and AddBack: cb(n) for every
\* insert callback, in order, r the outcome of the plugins' OnInsert.  A call
\* that spins in a nested Remove does not get here.
InsertCallbacks(r, l) ==
    IF r.s.hang \/ ~r.s.observe THEN r
    ELSE [s |-> [r.s EXCEPT !.log = @ \o [j \in 1..r.s.lists[l].onInsert |->
                                           SlEvent(r.s, l, "insert", "callback", j, r.n)]],
          n |-> r.n]

\* A new element{key, list: l} holding val: [s, e].
NewElement(s, l, key, val) ==
    [s |-> [s EXCEPT !.elems = Append(@, [key |-> key, value |-> val, next |-> Nil,
                                          prev |-> Nil, list |-> l])],
     e |-> Len(s.elems) + 1]

\* List.AddFront(key, val): [s, n], n the element of the node returned.
List_AddFront(s, l, key, val) ==
    LET a == NewElement(s, l, key, val)
        e == a.e
        s1 == IF HasCapability(a.s, l, "CapIndexed")
              THEN [a.s EXCEPT !.lists[l].index[key] = e] ELSE a.s
        head == s1.lists[l].head
        s2 == [s1 EXCEPT !.elems[e].next = head]
        s3 == IF head # Nil THEN [s2 EXCEPT !.elems[head].prev = e] ELSE s2
        s4 == [s3 EXCEPT !.lists[l].head = e]
        s5 == IF s4.lists[l].tail = Nil THEN [s4 EXCEPT !.lists[l].tail = e] ELSE s4
        s6 == [s5 EXCEPT !.lists[l].len = @ + 1]
    IN InsertCallbacks(PluginsOnInsert([s |-> s6, n |-> e], l, 1), l)

\* List.AddBack(key, val): [s, n]
List_AddBack(s, l, key, val) ==
    LET a == NewElement(s, l, key, val)
        e == a.e
        s1 == IF HasCapability(a.s, l, "CapIndexed")
              THEN [a.s EXCEPT !.lists[l].index[key] = e] ELSE a.s
        tail == s1.lists[l].tail
        s2 == [s1 EXCEPT !.elems[e].prev = tail]
        s3 == IF tail # Nil THEN [s2 EXCEPT !.elems[tail].next = e] ELSE s2
        s4 == [s3 EXCEPT !.lists[l].tail = e]
        s5 == IF s4.lists[l].head = Nil THEN [s4 EXCEPT !.lists[l].head = e] ELSE s4
        s6 == [s5 EXCEPT !.lists[l].len = @ + 1]
    IN InsertCallbacks(PluginsOnInsert([s |-> s6, n |-> e], l, 1), l)

\* MoveToFront without *n = *newNode: the caller's node keeps the removed
\* element.
MoveAfterRemove_StaleHandle(r, l, e) ==
    IF ~r.ret THEN [s |-> r.s, n |-> e, ret |-> FALSE]
    ELSE [s |-> List_AddFront(r.s, l, r.s.elems[e].key, r.s.elems[e].value).s,
          n |-> e, ret |-> TRUE]

\* List.MoveToFront after l.Remove(n), r the outcome of that call: AddFront of
\* the key and value, [s, n, ret].
MoveAfterRemove(r, l, e) ==
    IF ~r.ret THEN [s |-> r.s, n |-> e, ret |-> FALSE]
    ELSE [ret |-> TRUE] @@ List_AddFront(r.s, l, r.s.elems[e].key, r.s.elems[e].value)

\* List.MoveToFront(n), n.element = e: [s, n, ret]; *n = *newNode makes the
\* node hold the new element.
List_MoveToFront(s, l, e) ==
    IF e = Nil \/ s.elems[e].list # l THEN [s |-> s, n |-> e, ret |-> FALSE]
    ELSE IF s.lists[l].head = e THEN [s |-> s, n |-> e, ret |-> TRUE]
    ELSE MoveAfterRemove(List_Remove(s, l, e), l, e)

\* The two loops that end Node.SetValue: p.OnUpdate(n, oldVal) for every
\* plugin, then cb(n, oldVal) for every update callback, in order.  OnUpdate
\* of every plugin does nothing and a callback only sees its arguments.
UpdateHooks(s, list, n, oldVal) ==
    [i \in 1..Len(s.lists[list].plugins) |->
        [hook |-> "plugin", i |-> i, n |-> n, old |-> oldVal]]
    \o [j \in 1..s.lists[list].onUpdate |->
        [hook |-> "callback", i |-> j, n |-> n, old |-> oldVal]]

\* Node.SetValue without its reflect.DeepEqual test: an equal value is
\* stored and announced like any other.
Node_SetValue_NoSkip(s, e, v) ==
    IF e = Nil \/ s.elems[e].list = Nil
    THEN [s |-> s, n |-> e, ret |-> FALSE, fired |-> <<>>]
    ELSE LET oldVal == s.elems[e].value
             list == s.elems[e].list
             s1 == [s EXCEPT !.elems[e].value = v]
             m == IF HasCapability(s1, list, "CapLRU")
                  THEN List_MoveToFront(s1, list, e)
                  ELSE [s |-> s1, n |-> e, ret |-> TRUE]
         IN [s |-> m.s, n |-> m.n, ret |-> TRUE,
             fired |-> IF m.s.hang THEN <<>>
                       ELSE UpdateHooks(m.s, list, m.n, oldVal)]

\* Node.SetValue(v), n.element = e: [s, n, ret, fired], fired the update
\* hooks called, in order.
Node_SetValue(s, e, v) ==
    IF e = Nil \/ s.elems[e].list = Nil
    THEN [s |-> s, n |-> e, ret |-> FALSE, fired |-> <<>>]
    ELSE IF s.elems[e].value = v
    THEN [s |-> s, n |-> e, ret |-> FALSE, fired |-> <<>>]
    ELSE LET oldVal == s.elems[e].value
             list == s.elems[e].list
             s1 == [s EXCEPT !.elems[e].value = v]
             m == IF HasCapability(s1, list, "CapLRU")
                  THEN List_MoveToFront(s1, list, e)
                  ELSE [s |-> s1, n |-> e, ret |-> TRUE]
         IN [s |-> m.s, n |-> m.n, ret |-> TRUE,
             fired |-> IF m.s.hang THEN <<>>
                       ELSE UpdateHooks(m.s, list, m.n, oldVal)]

\* The outcome of a call that panics (nil pointer dereference).
Panic == -1

\* Node.Prev / Node.Next of a node holding e: the element of the node
\* returned, Nil for nil, Panic when n.element.list.sentinel is read through
\* a nil list.  The sentinel is never linked, so no pointer equals it.
Node_Prev(s, e) ==
    IF e = Nil THEN Nil
    ELSE IF s.elems[e].prev = Nil THEN Nil
    ELSE IF s.elems[e].list = Nil THEN Panic
    ELSE s.elems[e].prev

Node_Next(s, e) ==
    IF e = Nil THEN Nil
    ELSE IF s.elems[e].next = Nil THEN Nil
    ELSE IF s.elems[e].list = Nil THEN Panic
    ELSE s.elems[e].next

\* The linear scan of List.Find from element e on.
RECURSIVE FindScan(_, _, _, _)
FindScan(s, e, key, fuel) ==
    IF e = Nil \/ fuel = 0 THEN Nil
    ELSE IF s.elems[e].key = key THEN e
    ELSE FindScan(s, s.elems[e].next, key, fuel - 1)

\* List.Find(key): the element of the node returned, Nil for nil.
List_Find(s, l, key) ==
    IF HasCapability(s, l, "CapIndexed")
    THEN LET e == s.lists[l].index[key]
         IN IF e # Nil /\ s.elems[e].list # Nil THEN e ELSE Nil
    ELSE FindScan(s, s.lists[l].head, key, Len(s.elems) + 1)

\* List.Clear
RECURSIVE List_Clear(_, _, _)
List_Clear(s, l, fuel) ==
    LET e == s.lists[l].head
    IN IF e = Nil THEN s
       ELSE IF fuel = 0 THEN [s EXCEPT !.hang = TRUE]
       ELSE List_Clear(List_Remove(s, l, e).s, l, fuel - 1)

\* ---- calls ------------------------------------------------------------------

\* The elements met walking prev from e.
RECURSIVE SlWalkPrev(_, _, _)
SlWalkPrev(s, e, fuel) ==
    IF e = Nil \/ fuel = 0 THEN <<>>
    ELSE <<e>> \o SlWalkPrev(s, s.elems[e].prev, fuel - 1)

SlFromTail(s, l) == SlWalkPrev(s, s.lists[l].tail, Len(s.elems) + 1)

\* What Traversal visits: the (key, value) pairs from head on.
SlItems(s, l) ==
    LET w == SlFromHead(s, l)
    IN [i \in 1..Len(w) |-> [key |-> s.elems[w[i]].key, value |-> s.elems[w[i]].value]]

\* Position of element e in sequence w (0 when absent).
SlIndexOf(w, e) ==
    IF \E i \in 1..Len(w) : w[i] = e THEN CHOOSE i \in 1..Len(w) : w[i] = e ELSE 0

\* Sequence w without its i-th entry (w itself when i = 0).
SlWithout(w, i) ==
    [j \in 1..(Len(w) - (IF i = 0 THEN 0 ELSE 1)) |-> IF i = 0 \/ j < i THEN w[j] ELSE w[j + 1]]

\* The lists right after construction, all built by the same constructor;
\* nodes are the *Node values the caller holds, log the plugin hooks and
\* callbacks called so far by the call in progress, recorded when observe.
SlNew(cfg) ==
    [elems |-> <<>>, lists |-> [l \in SlLists |-> NewList(cfg)], nodes |-> <<>>,
     hang |-> FALSE, log |-> <<>>, observe |-> FALSE]

SlNoCall ==
    [op |-> "none", l |-> 0, h |-> 0, key |-> 0, val |-> 0, ret |-> FALSE,
     before |-> <<>>, pos |-> 0]

SlInitVars ==
    /\ sl = SlNew(NewConcurrentList)
    /\ slLast = SlNoCall
    /\ slOps = 0

\* The lists built by one of the constructors cfgs, no call made.
SlInit(cfgs) ==
    /\ \E cfg \in cfgs : sl = SlNew(cfg)
    /\ slLast = SlNoCall
    /\ slOps = 0

SlCanCall == slOps < SlMaxOps /\ ~sl.hang

\* n := l.AddFront(key, val)
CallAddFront(l, key, val) ==
    /\ SlCanCall
    /\ LET r == List_AddFront(sl, l, key, val)
       IN /\ sl' = [r.s EXCEPT !.nodes = Append(@, r.n), !.log = <<>>]
          /\ slLast' = [op |-> "AddFront", l |-> l, h |-> Len(sl.nodes) + 1, key |-> key,
                        val |-> val, ret |-> TRUE, before |-> SlItems(sl, l), pos |-> 0,
                        n |-> r.n, log |-> r.s.log, elems |-> Len(sl.elems)]
    /\ slOps' = slOps + 1

\* n := l.AddBack(key, val)
CallAddBack(l, key, val) ==
    /\ SlCanCall
    /\ LET r == List_AddBack(sl, l, key, val)
       IN /\ sl' = [r.s EXCEPT !.nodes = Append(@, r.n), !.log = <<>>]
          /\ slLast' = [op |-> "AddBack", l |-> l, h |-> Len(sl.nodes) + 1, key |-> key,
                        val |-> val, ret |-> TRUE, before |-> SlItems(sl, l), pos |-> 0,
                        n |-> r.n, log |-> r.s.log, elems |-> Len(sl.elems)]
    /\ slOps' = slOps + 1

\* l.Remove(n) for a node n the caller holds
CallRemove(l, h) ==
    /\ SlCanCall
    /\ h \in 1..Len(sl.nodes)
    /\ LET e == sl.nodes[h]
           r == List_Remove(sl, l, e)
       IN /\ sl' = [r.s EXCEPT !.log = <<>>]
          /\ slLast' = [op |-> "Remove", l |-> l, h |-> h, key |-> sl.elems[e].key,
                        val |-> sl.elems[e].value, ret |-> r.ret,
                        before |-> SlItems(sl, l),
                        pos |-> SlIndexOf(SlFromHead(sl, l), e),
                        n |-> e, log |-> r.s.log]
    /\ slOps' = slOps + 1

\* l.MoveToFront(n)
CallMoveToFront(l, h) ==
    /\ SlCanCall
    /\ h \in 1..Len(sl.nodes)
    /\ LET e == sl.nodes[h]
           r == List_MoveToFront(sl, l, e)
       IN /\ sl' = [r.s EXCEPT !.nodes[h] = r.n, !.log = <<>>]
          /\ slLast' = [op |-> "MoveToFront", l |-> l, h |-> h, key |-> sl.elems[e].key,
                        val |-> sl.elems[e].value, ret |-> r.ret,
                        before |-> SlItems(sl, l),
                        pos |-> SlIndexOf(SlFromHead(sl, l), e),
                        live |-> sl.elems[e].list = l]
    /\ slOps' = slOps + 1

\* n.SetValue(v)
CallSetValue(h, v) ==
    /\ SlCanCall
    /\ h \in 1..Len(sl.nodes)
    /\ LET e == sl.nodes[h]
           l == sl.elems[e].list
           r == Node_SetValue(sl, e, v)
       IN /\ sl' = [r.s EXCEPT !.nodes[h] = r.n, !.log = <<>>]
          /\ slLast' = [op |-> "SetValue", l |-> l, h |-> h, key |-> sl.elems[e].key,
                        val |-> v, ret |-> r.ret,
                        before |-> IF l = Nil THEN <<>> ELSE SlItems(sl, l),
                        pos |-> IF l = Nil THEN 0 ELSE SlIndexOf(SlFromHead(sl, l), e),
                        old |-> sl.elems[e].value, fired |-> r.fired]
    /\ slOps' = slOps + 1

\* l.OnInsert(f)
CallOnInsert(l) ==
    /\ ~sl.hang
    /\ sl.lists[l].onInsert + 1 \in SlCallbacks
    /\ sl' = List_OnInsert(sl, l)
    /\ slLast' = [op |-> "OnInsert", l |-> l, h |-> 0, key |-> 0, val |-> 0, ret |-> TRUE,
                  before |-> SlItems(sl, l), pos |-> 0]
    /\ UNCHANGED slOps

\* l.OnRemove(f)
CallOnRemove(l) ==
    /\ ~sl.hang
    /\ sl.lists[l].onRemove + 1 \in SlCallbacks
    /\ sl' = List_OnRemove(sl, l)
    /\ slLast' = [op |-> "OnRemove", l |-> l, h |-> 0, key |-> 0, val |-> 0, ret |-> TRUE,
                  before |-> SlItems(sl, l), pos |-> 0]
    /\ UNCHANGED slOps

\* l.OnUpdate(f)
CallOnUpdate(l) ==
    /\ ~sl.hang
    /\ sl.lists[l].onUpdate + 1 \in SlCallbacks
    /\ sl' = List_OnUpdate(sl, l)
    /\ slLast' = [op |-> "OnUpdate", l |-> l, h |-> 0, key |-> 0, val |-> 0, ret |-> TRUE,
                  before |-> SlItems(sl, l), pos |-> 0]
    /\ UNCHANGED slOps

\* l.Clear()
CallClear(l) ==
    /\ SlCanCall
    /\ sl' = [List_Clear(sl, l, Len(sl.elems) + 1) EXCEPT !.log = <<>>]
    /\ slLast' = [op |-> "Clear", l |-> l, h |-> 0, key |-> 0, val |-> 0, ret |-> TRUE,
                  before |-> SlItems(sl, l), pos |-> 0]
    /\ slOps' = slOps + 1

\* n := l.Find(key), the node kept by the caller when it is not nil
CallFind(l, key) ==
    /\ SlCanCall
    /\ LET e == List_Find(sl, l, key)
       IN /\ sl' = IF e = Nil THEN sl ELSE [sl EXCEPT !.nodes = Append(@, e)]
          /\ slLast' = [op |-> "Find", l |-> l, h |-> IF e = Nil THEN 0 ELSE Len(sl.nodes) + 1,
                        key |-> key, val |-> IF e = Nil THEN 0 ELSE sl.elems[e].value,
                        ret |-> e # Nil, before |-> SlItems(sl, l), pos |-> 0]
    /\ slOps' = slOps + 1

(***************************************************************************)
(*                 bloom_filter.BloomFilter (part_018)                     *)
(***************************************************************************)

\* Number of Add / Contains / Reset calls of the single caller.
BfMaxOps == 4
\* Goroutines calling Contains concurrently.
BfNumThreads == 2
\* Number of calls started in the concurrent specification.
BfMaxConcOps == 3

BfThreads == 1..BfNumThreads

\* Items handed to Add and Contains: the byte strings "a", "b" and "ab".
BfItems == {<<97>>, <<98>>, <<97, 98>>}

\* The (m, k) pairs lines 21-22 compute: NewBloomFilter(4, 0.3) gives m = 10,
\* k = 1 and NewBloomFilter(5, 0.2) gives m = 16, k = 2.
BfSizes == {[m |-> 10, k |-> 1], [m |-> 16, k |-> 2]}

\* One byte of a ^ b, bit by bit (n bits left).
RECURSIVE Xor8(_, _, _)
Xor8(a, b, n) ==
    IF n = 0 THEN 0
    ELSE (((a % 2) + (b % 2)) % 2) + 2 * Xor8(a \div 2, b \div 2, n - 1)

\* hash/fnv offset64 = 0xcbf29ce484222325 as four 16-bit limbs, lowest first.
\* A hasher's state is its running 64-bit hash; fnv.New64a() and Reset() set it
\* to offset64.
offset64 == <<8997, 33826, 40164, 52210>>

\* One step of FNV-1a: hash ^= c; hash *= prime64, with prime64 =
\* 0x100000001b3 = 2^40 + 435, modulo 2^64.
sum64a_WriteByte(h, c) ==
    LET x0 == ((h[1] \div 256) * 256) + Xor8(h[1] % 256, c, 8)
        s0 == x0 * 435
        s1 == (h[2] * 435) + (s0 \div 65536)
        s2 == (h[3] * 435) + (s1 \div 65536) + ((x0 * 256) % 65536)
        s3 == (h[4] * 435) + (s2 \div 65536) + ((x0 * 256) \div 65536) + (h[2] * 256)
    IN <<s0 % 65536, s1 % 65536, s2 % 65536, s3 % 65536>>

\* h.Write(item): the bytes of item are folded into the running hash.
RECURSIVE sum64a_Write(_, _)
sum64a_Write(h, item) ==
    IF item = <<>> THEN h
    ELSE sum64a_Write(sum64a_WriteByte(h, Head(item)), Tail(item))

\* index := h.Sum(nil)[0] % uint8(this.m): Sum is big-endian, so byte 0 is the
\* top byte of the hash, and uint8(m) is m modulo 256.
\* When uint8(m) is 0 the % is an integer division by zero: Panic.
BfIndex(f, h) ==
    IF f.m % 256 = 0 THEN Panic ELSE (h[4] \div 256) % (f.m % 256)

NewBloomFilter(m, k) ==
    [bitset |-> [i \in 0..(m - 1) |-> FALSE], m |-> m,
     hashFuncs |-> [i \in 1..k |-> offset64], hashFuncNum |-> k]

\* BloomFilter.Add from hasher i on (the lock is held for the whole call).
RECURSIVE BfAddFrom(_, _, _)
BfAddFrom(f, item, i) ==
    IF i > f.hashFuncNum THEN f
    ELSE LET h == sum64a_Write(f.hashFuncs[i], item)
             index == BfIndex(f, h)
         IN BfAddFrom([f EXCEPT !.bitset[index] = TRUE, !.hashFuncs[i] = offset64],
                      item, i + 1)

BloomFilter_Add(f, item) == BfAddFrom(f, item, 1)

\* BloomFilter.Contains from hasher i on, run by one caller: [f, ret].  The
\* early return leaves hasher i as Write left it.
RECURSIVE BfContainsFrom(_, _, _)
BfContainsFrom(f, item, i) ==
    IF i > f.hashFuncNum THEN [f |-> f, ret |-> TRUE]
    ELSE LET h == sum64a_Write(f.hashFuncs[i], item)
             index == BfIndex(f, h)
         IN IF ~f.bitset[index]
            THEN [f |-> [f EXCEPT !.hashFuncs[i] = h], ret |-> FALSE]
            ELSE BfContainsFrom([f EXCEPT !.hashFuncs[i] = offset64], item, i + 1)

BloomFilter_Contains(f, item) == BfContainsFrom(f, item, 1)

BloomFilter_Reset(f) ==
    [f EXCEPT !.bitset = [i \in DOMAIN f.bitset |-> FALSE],
              !.hashFuncs = [i \in DOMAIN f.hashFuncs |-> offset64]]

\* What Contains(item) returns when it runs alone with freshly reset hashers
\* on the bit array of f.
BfAlone(f, item) ==
    BloomFilter_Contains([f EXCEPT !.hashFuncs = [i \in DOMAIN f.hashFuncs |-> offset64]],
                         item).ret

BfIdle == [pc |-> "idle", item |-> <<>>, i |-> 0, added |-> FALSE, alone |-> FALSE,
           ret |-> FALSE, done |-> FALSE]

BfNoCall == [op |-> "none", item |-> <<>>, ret |-> FALSE]

BfInitVars ==
    /\ bf = NewBloomFilter(10, 1)
    /\ bfAdded = {}
    /\ bfLast = BfNoCall
    /\ bfThr = [t \in BfThreads |-> BfIdle]
    /\ bfOps = 0

\* The (m, k) pairs of NewBloomFilter(1, 0.3), (4, 0.3), (5, 0.2),
\* (128, 0.3837), (128, 0.3823), (64, 0.146), (128, 0.381), (100, 0.2366) and
\* (128, 0.1463).
BfIndexSizes ==
    {[m |-> 2, k |-> 1], [m |-> 10, k |-> 1], [m |-> 16, k |-> 2],
     [m |-> 255, k |-> 1], [m |-> 256, k |-> 1], [m |-> 256, k |-> 2],
     [m |-> 257, k |-> 1], [m |-> 300, k |-> 2], [m |-> 512, k |-> 2]}

\* The bit positions Add and Contains compute for item, one per hasher, on
\* freshly reset hashers.
BfPositions(f, item) ==
    [i \in 1..f.hashFuncNum |-> BfIndex(f, sum64a_Write(f.hashFuncs[i], item))]

\* The index computation of Add / Contains for item, on its own.
CallBfPositions(item) ==
    /\ bfOps < BfMaxOps
    /\ bfLast' = [op |-> "positions", item |-> item, ret |-> BfPositions(bf, item)]
    /\ bfOps' = bfOps + 1
    /\ UNCHANGED <<bf, bfAdded, bfThr>>

\* Add called for each item of a sequence in turn.
RECURSIVE BfAddAll(_, _)
BfAddAll(f, items) ==
    IF items = <<>> THEN f ELSE BfAddAll(BloomFilter_Add(f, Head(items)), Tail(items))

\* A new filter of one of the sizes, after the Add calls of one of the scripts.
BfInit(scripts) ==
    /\ \E z \in BfSizes, items \in scripts :
          /\ bf = BfAddAll(NewBloomFilter(z.m, z.k), items)
          /\ bfAdded = {items[j] : j \in DOMAIN items}
    /\ bfLast = BfNoCall
    /\ bfThr = [t \in BfThreads |-> BfIdle]
    /\ bfOps = 0

\* ---- one caller ----------------------------------------------------------
CallBfAdd(item) ==
    /\ bfOps < BfMaxOps
    /\ bf' = BloomFilter_Add(bf, item)
    /\ bfAdded' = bfAdded \cup {item}
    /\ bfLast' = [op |-> "Add", item |-> item, ret |-> TRUE]
    /\ bfOps' = bfOps + 1
    /\ UNCHANGED bfThr

CallBfContains(item) ==
    /\ bfOps < BfMaxOps
    /\ LET r == BloomFilter_Contains(bf, item)
       IN /\ bf' = r.f
          /\ bfLast' = [op |-> "Contains", item |-> item, ret |-> r.ret]
    /\ bfOps' = bfOps + 1
    /\ UNCHANGED <<bfAdded, bfThr>>

CallBfReset ==
    /\ bfOps < BfMaxOps
    /\ bf' = BloomFilter_Reset(bf)
    /\ bfAdded' = {}
    /\ bfLast' = [op |-> "Reset", item |-> <<>>, ret |-> TRUE]
    /\ bfOps' = bfOps + 1
    /\ UNCHANGED bfThr

\* ---- concurrent callers ---------------------------------------------------
\* Contains line 48: this.mu.RLock().  Readers do not exclude one another.
ContainsRLock(t, item) ==
    /\ bfOps < BfMaxConcOps
    /\ bfThr[t].pc = "idle"
    /\ bfThr' = [bfThr EXCEPT ![t] =
                    IF bf.hashFuncNum = 0
                    THEN [BfIdle EXCEPT !.item = item, !.added = item \in bfAdded,
                                        !.alone = TRUE, !.ret = TRUE, !.done = TRUE]
                    ELSE [pc |-> "write", item |-> item, i |-> 1,
                          added |-> item \in bfAdded, alone |-> BfAlone(bf, item),
                          ret |-> FALSE, done |-> FALSE]]
    /\ bfOps' = bfOps + 1
    /\ UNCHANGED <<bf, bfAdded, bfLast>>

\* Contains line 51: h.Write(item) on the shared hasher i.
ContainsWrite(t) ==
    /\ bfThr[t].pc = "write"
    /\ bf' = [bf EXCEPT !.hashFuncs[bfThr[t].i] = sum64a_Write(@, bfThr[t].item)]
    /\ bfThr' = [bfThr EXCEPT ![t].pc = "sum"]
    /\ UNCHANGED <<bfAdded, bfLast, bfOps>>

\* Contains lines 52-55: the index from the shared hasher, the bit test and
\* the early return (the deferred RUnlock runs).
ContainsSum(t) ==
    /\ bfThr[t].pc = "sum"
    /\ LET index == BfIndex(bf, bf.hashFuncs[bfThr[t].i])
       IN bfThr' = [bfThr EXCEPT ![t] =
                       IF ~bf.bitset[index]
                       THEN [@ EXCEPT !.pc = "idle", !.ret = FALSE, !.done = TRUE]
                       ELSE [@ EXCEPT !.pc = "reset"]]
    /\ UNCHANGED <<bf, bfAdded, bfLast, bfOps>>

\* Contains line 56: h.Reset(), then the next hasher or return true.
ContainsReset(t) ==
    /\ bfThr[t].pc = "reset"
    /\ bf' = [bf EXCEPT !.hashFuncs[bfThr[t].i] = offset64]
    /\ bfThr' = [bfThr EXCEPT ![t] =
                    IF @.i = bf.hashFuncNum
                    THEN [@ EXCEPT !.pc = "idle", !.ret = TRUE, !.done = TRUE]
                    ELSE [@ EXCEPT !.pc = "write", !.i = @ + 1]]
    /\ UNCHANGED <<bfAdded, bfLast, bfOps>>

\* Add by a writer: this.mu.Lock() is granted only while no reader holds the
\* lock, and the whole call runs under it.
AddLocked(item) ==
    /\ bfOps < BfMaxConcOps
    /\ \A t \in BfThreads : bfThr[t].pc = "idle"
    /\ bf' = BloomFilter_Add(bf, item)
    /\ bfAdded' = bfAdded \cup {item}
    /\ bfOps' = bfOps + 1
    /\ UNCHANGED <<bfThr, bfLast>>

(***************************************************************************)
(*                      safemap.SafeMap (safemap.go)                       *)
(***************************************************************************)

\* Values stored in the map.
SmNumVals == 2
\* The largest runtime.NumCPU() of the machines considered.
SmNumCPU == 2
\* Number of Store calls of the other goroutines while RangeUpdate runs.
SmMaxOps == 1
\* Number of Store and Load calls where goroutines only store and load.
SmMaxCalls == 4

\* The keys of the map.
SmKeys == {1, 2, 3}
SmVals == 1..SmNumVals
SmWorkers == 1..SmNumCPU

\* A Load that finds no key.
SafeMap_Load_Miss(m, key) == 0

\* The map is the set of its entries [k, v].
\* sync.Map.Load: the value of an entry of key, 0 when there is none.
SafeMap_Load(m, key) ==
    IF \E p \in m : p.k = key THEN (CHOOSE p \in m : p.k = key).v ELSE 0

SafeMap_Store_Add(m, key, value) == m \cup {[k |-> key, v |-> value]}

\* SafeMap.Store: sync.Map.Store sets the value of key in one atomic step.
SafeMap_Store(m, key, value) ==
    {p \in m : p.k # key} \cup {[k |-> key, v |-> value]}

\* SafeMap.Delete: sync.Map.Delete removes the entry of key, if any.
SafeMap_Delete(m, key) == {p \in m : p.k # key}

\* The updateFn handed to RangeUpdate: "next" replaces every value by its
\* successor, "odd" does so for odd values only and leaves the others alone.
SmFns == {"next", "odd"}

updateFn(fn, key, oldValue) ==
    [newValue |-> (oldValue % SmNumVals) + 1,
     update |-> (fn = "next" \/ oldValue % 2 = 1)]

\* start is the map RangeUpdate was called on and calls the (key, oldValue)
\* pairs updateFn was called with, in order.
SmIdleRu == [pc |-> "idle", fn |-> "next", start |-> {}, must |-> {}, visited |-> {},
             calls |-> <<>>, items |-> <<>>, workerCount |-> 0, sent |-> 0,
             closed |-> FALSE]

SmNoLoad == [op |-> "none", key |-> 0, value |-> 0, ok |-> FALSE,
             last |-> [ext |-> 0, worker |-> 0, by |-> "none", v |-> 0, del |-> FALSE]]

\* del: another goroutine deleted the key after phase 1 had collected it, and
\* no other goroutine has stored it since.
SmNoStores ==
    [k \in SmKeys |-> [ext |-> 0, worker |-> 0, by |-> "none", v |-> 0, del |-> FALSE]]

SmInitVars ==
    /\ smMap = {}
    /\ smRu = SmIdleRu
    /\ smCh = <<>>
    /\ smW = [w \in SmWorkers |-> [pc |-> "none", item |-> [k |-> 0, v |-> 0]]]
    /\ smStores = SmNoStores
    /\ smOps = 0
    /\ smLast = SmNoLoad

\* The maps holding any of the keys, each with value 1 or 2.
SmMaps ==
    {{[k |-> k, v |-> f[k]] : k \in {j \in SmKeys : f[j] # 0}} : f \in [SmKeys -> 0..2]}

\* RangeUpdate is about to be called on one of the maps.
SmInit(maps) ==
    /\ smMap \in maps
    /\ smRu = SmIdleRu
    /\ smCh = <<>>
    /\ smW = [w \in SmWorkers |-> [pc |-> "none", item |-> [k |-> 0, v |-> 0]]]
    /\ smStores = SmNoStores
    /\ smOps = 0
    /\ smLast = SmNoLoad

\* RangeUpdate is called: m.Range starts (line 111).  sync.Map.Range visits no
\* key twice and visits every key that is present for the whole of the call; a
\* key stored while it runs may be visited or not.
RangeUpdate(fn) ==
    /\ smRu.pc = "idle"
    /\ smRu' = [smRu EXCEPT !.pc = "range", !.fn = fn, !.start = smMap,
                            !.must = {p.k : p \in smMap}]
    /\ UNCHANGED <<smMap, smCh, smW, smStores, smOps, smLast>>

\* Lines 111-117: Range hands one not yet visited key with its current value
\* to the callback, which appends kv{key, newVal} when updateFn says so.
RangeVisit(key) ==
    /\ smRu.pc = "range"
    /\ key \notin smRu.visited
    /\ \E p \in smMap : p.k = key
    /\ LET r == updateFn(smRu.fn, key, SafeMap_Load(smMap, key))
       IN smRu' = [smRu EXCEPT !.visited = @ \cup {key},
                               !.calls = Append(@, [k |-> key,
                                                    v |-> SafeMap_Load(smMap, key)]),
                               !.items = IF r.update
                                         THEN Append(@, [k |-> key, v |-> r.newValue])
                                         ELSE @]
    /\ UNCHANGED <<smMap, smCh, smW, smStores, smOps, smLast>>

\* Lines 120-133: Range has returned; workerCount := runtime.NumCPU(), taskCh
\* is made and the workers are started.
StartWorkers(n) ==
    /\ smRu.pc = "range"
    /\ smRu.must \subseteq smRu.visited
    /\ smRu' = [smRu EXCEPT !.pc = "send", !.workerCount = n]
    /\ smW' = [w \in SmWorkers |-> [pc |-> IF w <= n THEN "recv" ELSE "none",
                                    item |-> [k |-> 0, v |-> 0]]]
    /\ UNCHANGED <<smMap, smCh, smStores, smOps, smLast>>

\* A send loop that counts an item as sent without putting it on taskCh.
SendItem_Drop ==
    /\ smRu.pc = "send"
    /\ smRu.sent < Len(smRu.items)
    /\ smRu' = [smRu EXCEPT !.sent = @ + 1]
    /\ UNCHANGED <<smMap, smCh, smW, smStores, smOps, smLast>>

\* Lines 136-138: taskCh <- item, blocking while the buffer of
\* workerCount*2 is full.
SendItem ==
    /\ smRu.pc = "send"
    /\ smRu.sent < Len(smRu.items)
    /\ Len(smCh) < smRu.workerCount * 2
    /\ smCh' = Append(smCh, smRu.items[smRu.sent + 1])
    /\ smRu' = [smRu EXCEPT !.sent = @ + 1]
    /\ UNCHANGED <<smMap, smW, smStores, smOps, smLast>>

\* RangeUpdate going on to wg.Wait() without closing taskCh.
CloseCh_NoClose ==
    /\ smRu.pc = "send"
    /\ smRu.sent = Len(smRu.items)
    /\ smRu' = [smRu EXCEPT !.pc = "wait"]
    /\ UNCHANGED <<smMap, smCh, smW, smStores, smOps, smLast>>

\* Line 139: close(taskCh).
CloseCh ==
    /\ smRu.pc = "send"
    /\ smRu.sent = Len(smRu.items)
    /\ smRu' = [smRu EXCEPT !.pc = "wait", !.closed = TRUE]
    /\ UNCHANGED <<smMap, smCh, smW, smStores, smOps, smLast>>

\* Line 129: a worker receives the next item of taskCh.
WorkerRecv(w) ==
    /\ smW[w].pc = "recv"
    /\ smCh # <<>>
    /\ smW' = [smW EXCEPT ![w] = [pc |-> "store", item |-> Head(smCh)]]
    /\ smCh' = Tail(smCh)
    /\ UNCHANGED <<smMap, smRu, smStores, smOps, smLast>>

\* Line 130: m.Store(item.k, item.v).
WorkerStore(w) ==
    /\ smW[w].pc = "store"
    /\ smMap' = SafeMap_Store(smMap, smW[w].item.k, smW[w].item.v)
    /\ smStores' = [smStores EXCEPT ![smW[w].item.k] =
                       [@ EXCEPT !.worker = @ + 1, !.by = "worker", !.v = smW[w].item.v]]
    /\ smW' = [smW EXCEPT ![w].pc = "recv"]
    /\ UNCHANGED <<smRu, smCh, smOps, smLast>>

\* Line 129: the range over the closed, drained channel ends; wg.Done().
WorkerDone(w) ==
    /\ smW[w].pc = "recv"
    /\ smCh = <<>>
    /\ smRu.closed
    /\ smW' = [smW EXCEPT ![w].pc = "done"]
    /\ UNCHANGED <<smMap, smRu, smCh, smStores, smOps, smLast>>

\* Line 141: wg.Wait() returns and so does RangeUpdate.
RangeUpdateReturn ==
    /\ smRu.pc = "wait"
    /\ \A w \in 1..smRu.workerCount : smW[w].pc = "done"
    /\ smRu' = [smRu EXCEPT !.pc = "done"]
    /\ UNCHANGED <<smMap, smCh, smW, smStores, smOps, smLast>>

\* Another goroutine calls Store(key, value) while RangeUpdate runs.
ExternalStore(key, value) ==
    /\ smOps < SmMaxOps
    /\ smRu.pc \in {"range", "send", "wait"}
    /\ smMap' = SafeMap_Store(smMap, key, value)
    /\ smStores' = [smStores EXCEPT ![key] =
                       [@ EXCEPT !.ext = @ + 1, !.by = "ext", !.v = value, !.del = FALSE]]
    /\ smOps' = smOps + 1
    /\ UNCHANGED <<smRu, smCh, smW, smLast>>

\* Another goroutine calls Delete(key) while RangeUpdate runs.
ExternalDelete(key) ==
    /\ smOps < SmMaxOps
    /\ smRu.pc \in {"range", "send", "wait"}
    /\ smMap' = SafeMap_Delete(smMap, key)
    /\ smStores' = [smStores EXCEPT ![key] =
                       [@ EXCEPT !.del = \E j \in 1..Len(smRu.items) :
                                            smRu.items[j].k = key]]
    /\ smOps' = smOps + 1
    /\ UNCHANGED <<smRu, smCh, smW, smLast>>

\* A goroutine calls Store(key, value); no RangeUpdate runs.
CallStore(key, value) ==
    /\ smOps < SmMaxCalls
    /\ smRu.pc = "idle"
    /\ smMap' = SafeMap_Store(smMap, key, value)
    /\ smStores' = [smStores EXCEPT ![key] =
                       [@ EXCEPT !.ext = @ + 1, !.by = "ext", !.v = value, !.del = FALSE]]
    /\ smOps' = smOps + 1
    /\ UNCHANGED <<smRu, smCh, smW, smLast>>

\* A goroutine calls Load(key): (value, ok), the zero value and false when
\* the key is missing.
CallLoad(key) ==
    /\ smOps < SmMaxCalls
    /\ smRu.pc = "idle"
    /\ smLast' = [op |-> "Load", key |-> key, value |-> SafeMap_Load(smMap, key),
                  ok |-> \E p \in smMap : p.k = key, last |-> smStores[key]]
    /\ smOps' = smOps + 1
    /\ UNCHANGED <<smMap, smRu, smCh, smW, smStores>>

(***************************************************************************)
(*                        heap.Heap (part_013)                             *)
(***************************************************************************)

\* Capacity of the largest heap and length of the longest array sorted.
HpMaxCap == 4

\* The elements are the ints 1..HpNumVals; 0 is the zero value of T.
HpNumVals == 3

\* Number of Insert / Pop calls.
HpMaxOps == 6

HpVals == 1..HpNumVals

\* less of the caller: a < b on ints.
less(a, b) == a < b

\* MinHeap(less), MaxHeap(less); reverse is the reverseCompare HeapSorted
\* builds from its compareFn.
HpCompareFns == {[fn |-> "MinHeap", reverse |-> FALSE], [fn |-> "MaxHeap", reverse |-> FALSE]}

MinHeap(a, b) == IF less(a, b) THEN -1 ELSE IF less(b, a) THEN 1 ELSE 0

MaxHeap(a, b) == IF less(a, b) THEN 1 ELSE IF less(b, a) THEN -1 ELSE 0

\* h.compareFn(a, b)
compareFn(c, a, b) ==
    (IF c.reverse THEN -1 ELSE 1) * (IF c.fn = "MinHeap" THEN MinHeap(a, b) ELSE MaxHeap(a, b))

\* NewHeap(capacity, compareFn); HPDate[i + 1] is the slot of Go index i.
NewHeap(capacity, c) ==
    [HPDate |-> [i \in 1..capacity |-> 0], heapSize |-> 0, capacity |-> capacity,
     compareFn |-> c]

\* h.HPDate[i], h.HPDate[j] = h.HPDate[j], h.HPDate[i] for Go indices i, j
HpSwap(h, i, j) ==
    [h EXCEPT !.HPDate[i + 1] = h.HPDate[j + 1], !.HPDate[j + 1] = h.HPDate[i + 1]]

\* DownAdjust that never swaps.
DownAdjust_None(h, parent) == h

\* Heap.DownAdjust(&parent): the for loop, one round per call.
RECURSIVE DownAdjust(_, _)
DownAdjust(h, parent) ==
    LET child0 == (2 * parent) + 1
        child == IF child0 + 1 < h.heapSize
                    /\ compareFn(h.compareFn, h.HPDate[child0 + 2], h.HPDate[child0 + 1]) < 0
                 THEN child0 + 1 ELSE child0
    IN IF ~(child0 < h.heapSize) THEN h
       ELSE IF compareFn(h.compareFn, h.HPDate[parent + 1], h.HPDate[child + 1]) <= 0 THEN h
       ELSE DownAdjust(HpSwap(h, parent, child), child)

\* UpAdjust that never swaps.
UpAdjust_None(h, child) == h

\* Heap.UpAdjust(&child): the for loop, one round per call.
RECURSIVE UpAdjust(_, _)
UpAdjust(h, child) ==
    LET parent == (child - 1) \div 2
    IN IF ~(child > 0) THEN h
       ELSE IF compareFn(h.compareFn, h.HPDate[parent + 1], h.HPDate[child + 1]) <= 0 THEN h
       ELSE UpAdjust(HpSwap(h, parent, child), parent)

\* Heap.Insert(value)
Heap_Insert(h, value) ==
    IF h.heapSize >= h.capacity THEN h
    ELSE UpAdjust([h EXCEPT !.HPDate[h.heapSize + 1] = value, !.heapSize = @ + 1],
                  h.heapSize)

\* Heap.Pop(): [h, top, err]
Heap_Pop(h) ==
    IF h.heapSize = 0 THEN [h |-> h, top |-> 0, err |-> TRUE]
    ELSE [h |-> DownAdjust([h EXCEPT !.HPDate[1] = h.HPDate[h.heapSize],
                                      !.heapSize = @ - 1], 0),
          top |-> h.HPDate[1], err |-> FALSE]

\* Heap.AdjustHeap, the for loop from index i down to 0.
RECURSIVE AdjustHeapFrom(_, _)
AdjustHeapFrom(h, i) ==
    IF ~(i >= 0) THEN h ELSE AdjustHeapFrom(DownAdjust(h, i), i - 1)

\* Heap.AdjustHeap()
AdjustHeap(h) ==
    IF h.heapSize <= 1 THEN h ELSE AdjustHeapFrom(h, (h.heapSize \div 2) - 1)

\* HeapSorted, the sorting loop from index i down to 1.
RECURSIVE HeapSortLoop(_, _)
HeapSortLoop(h, i) ==
    IF ~(i > 0) THEN h
    ELSE HeapSortLoop(DownAdjust([HpSwap(h, 0, i) EXCEPT !.heapSize = @ - 1], 0), i - 1)

\* HeapSorted that returns the heap array as AdjustHeap left it.
HeapSorted_NoLoop(arr, c) ==
    IF Len(arr) <= 1 THEN arr
    ELSE AdjustHeap([NewHeap(Len(arr), [c EXCEPT !.reverse = ~@])
                        EXCEPT !.HPDate = arr, !.heapSize = Len(arr)]).HPDate

\* HeapSorted(arr, compareFn): h.HPDate[:size]
HeapSorted(arr, c) ==
    IF Len(arr) <= 1 THEN arr
    ELSE HeapSortLoop(AdjustHeap([NewHeap(Len(arr), [c EXCEPT !.reverse = ~@])
                                     EXCEPT !.HPDate = arr, !.heapSize = Len(arr)]),
                      Len(arr) - 1).HPDate

HpNoCall == [op |-> "none", arg |-> 0, ret |-> 0, err |-> FALSE]

HpInitVars ==
    /\ hp = NewHeap(0, [fn |-> "MinHeap", reverse |-> FALSE])
    /\ hpLast = HpNoCall
    /\ hpOps = 0

\* h.Insert(value)
CallInsert(value) ==
    /\ hpOps < HpMaxOps
    /\ hp' = Heap_Insert(hp, value)
    /\ hpLast' = [op |-> "Insert", arg |-> value, ret |-> 0, err |-> FALSE,
                  full |-> hp.heapSize >= hp.capacity, before |-> hp]
    /\ hpOps' = hpOps + 1

\* h.Pop()
CallPop ==
    /\ hpOps < HpMaxOps
    /\ hp' = Heap_Pop(hp).h
    /\ hpLast' = [op |-> "Pop", arg |-> 0, ret |-> Heap_Pop(hp).top, err |-> Heap_Pop(hp).err,
                  full |-> FALSE, before |-> hp]
    /\ hpOps' = hpOps + 1

\* HeapSorted(arr, compareFn) on the array and comparison held in hpLast.arg
CallHeapSorted ==
    /\ hpLast.op = "input"
    /\ hpLast' = [hpLast EXCEPT !.op = "HeapSorted",
                                !.ret = HeapSorted(hpLast.arg.arr, hpLast.arg.compareFn)]
    /\ UNCHANGED <<hp, hpOps>>

(***************************************************************************)
(*              list.List, mutex-based (list/readme.md)                    *)
(***************************************************************************)

\* Number of goroutines, each making one AddBack, AddFront or Remove call on
\* a list built by New(true).
MlNumThreads == 3

\* Number of nodes added before the goroutines start.
MlLinked == 2

MlThreads == 1..MlNumThreads

\* Goroutine t adds the node with id t; the nodes linked at the start follow,
\* and the root (sentinel) node comes last.
MlLinkedNodes == (MlNumThreads + 1)..(MlNumThreads + MlLinked)

MlRoot == MlNumThreads + MlLinked + 1

MlNodes == 1..MlRoot

\* New(true): root.prev, root.next = root, root; mu = 0 stands for unlocked.
New_Mutex ==
    [next |-> [n \in MlNodes |-> IF n = MlRoot THEN MlRoot ELSE Nil],
     prev |-> [n \in MlNodes |-> IF n = MlRoot THEN MlRoot ELSE Nil],
     list |-> [n \in MlNodes |-> FALSE], len |-> 0, mu |-> 0]

\* List.insertNode(at, n)
insertNode(l, at, n) ==
    LET l1 == [l EXCEPT !.next[n] = l.next[at]]
        l2 == [l1 EXCEPT !.prev[l1.next[at]] = n]
        l3 == [l2 EXCEPT !.next[at] = n]
        l4 == [l3 EXCEPT !.prev[n] = at]
    IN [l4 EXCEPT !.list[n] = TRUE, !.len = @ + 1]

\* The body of AddBack, run with l.mu held.
Mutex_AddBack(l, n) == insertNode(l, l.prev[MlRoot], n)

\* The body of AddFront, run with l.mu held.
Mutex_AddFront(l, n) == insertNode(l, MlRoot, n)

\* The body of Remove after the lock is taken: [l, ret].  n.prev.next = n.next
\* dereferences n.prev, which is nil once the node has been removed: panic.
Mutex_Remove(l, n) ==
    IF l.prev[n] = Nil THEN [l |-> l, ret |-> "panic"]
    ELSE LET l1 == [l EXCEPT !.next[l.prev[n]] = l.next[n]]
         IN IF l1.next[n] = Nil THEN [l |-> l1, ret |-> "panic"]
            ELSE [l |-> [l1 EXCEPT !.prev[l1.next[n]] = l1.prev[n],
                                   !.list[n] = FALSE,
                                   !.len = @ - 1,
                                   !.prev[n] = Nil,
                                   !.next[n] = Nil],
                  ret |-> "true"]

RECURSIVE MlLoad(_, _)
MlLoad(l, k) ==
    IF k = 0 THEN l ELSE Mutex_AddBack(MlLoad(l, k - 1), MlNumThreads + k)

MlIdle == [pc |-> "idle", op |-> "none", n |-> Nil, ret |-> "none"]

\* The list before New is called.
MlInitVars ==
    /\ ml = New_Mutex
    /\ mlT = [t \in MlThreads |-> MlIdle]

\* The list holding the nodes of MlLinkedNodes, in order.
MlInit ==
    /\ ml = MlLoad(New_Mutex, MlLinked)
    /\ mlT = [t \in MlThreads |-> MlIdle]

\* A goroutine calls AddBack or AddFront: it goes for l.mu.Lock().
MlCallAdd(t, op) ==
    /\ mlT[t].pc = "idle"
    /\ mlT' = [mlT EXCEPT ![t] = [pc |-> "lock", op |-> op, n |-> t, ret |-> "none"]]
    /\ UNCHANGED ml

\* A goroutine calls Remove(n): if n == nil || n.list != l { return false },
\* read before the lock is taken.
MlCallRemove(t, n) ==
    /\ mlT[t].pc = "idle"
    /\ mlT' = [mlT EXCEPT ![t] = IF ml.list[n]
                                 THEN [pc |-> "lock", op |-> "Remove", n |-> n, ret |-> "none"]
                                 ELSE [pc |-> "done", op |-> "Remove", n |-> n, ret |-> "false"]]
    /\ UNCHANGED ml

\* l.mu.Lock() returns.
MlLock(t) ==
    /\ mlT[t].pc = "lock"
    /\ ml.mu = 0
    /\ ml' = [ml EXCEPT !.mu = t]
    /\ mlT' = [mlT EXCEPT ![t].pc = "body"]

\* The rest of the call, up to the deferred l.mu.Unlock(), which also runs
\* when the body panics; no plugins and no callbacks are registered.
MlBody(t) ==
    /\ mlT[t].pc = "body"
    /\ ml.mu = t
    /\ LET r == IF mlT[t].op = "AddBack"
                THEN [l |-> Mutex_AddBack(ml, mlT[t].n), ret |-> "node"]
                ELSE IF mlT[t].op = "AddFront"
                THEN [l |-> Mutex_AddFront(ml, mlT[t].n), ret |-> "node"]
                ELSE Mutex_Remove(ml, mlT[t].n)
       IN /\ ml' = [r.l EXCEPT !.mu = 0]
          /\ mlT' = [mlT EXCEPT ![t].pc = "done", ![t].ret = r.ret]

\* The nodes met walking next from n up to the root.
RECURSIVE MlWalk(_, _, _)
MlWalk(l, n, fuel) ==
    IF n = MlRoot \/ n = Nil \/ fuel = 0 THEN <<>>
    ELSE <<n>> \o MlWalk(l, l.next[n], fuel - 1)

(***************************************************************************)
(*   Subscribe loops: rnats.Client (README.md), rrdb.StreamClient          *)
(*   (part_010)                                                            *)
(***************************************************************************)

\* Number of messages published to the stream.
SubNumMsgs == 3

\* How often the broker delivers one message at most.
SubMaxDeliveries == 2

SubMsgs == 1..SubNumMsgs

\* The two consumers.
SubKinds == {"jetstream", "redis"}

\* A message: state is "stream" (waiting to be delivered), "handling" (handed
\* to the consumer), "pending" (delivered, neither acknowledged nor negatively
\* acknowledged) or "acked"; result, ack and nak tell what the consumer did
\* with its last delivery: the handler's outcome and the calls it made.
SubNewMsg ==
    [state |-> "stream", deliveries |-> 0, result |-> "none", ack |-> FALSE, nak |-> FALSE]

SubInitVars == sub = [kind |-> "none", msgs |-> [m \in SubMsgs |-> SubNewMsg]]

\* Subscribe of either client has been called on a stream holding the messages.
SubInit ==
    \E kind \in SubKinds : sub = [kind |-> kind, msgs |-> [m \in SubMsgs |-> SubNewMsg]]

\* The consumer is between two messages.
SubFree == \A m \in SubMsgs : sub.msgs[m].state # "handling"

\* JetStream calls the function handed to cons.Consume with a message that is
\* new, or was negatively acknowledged, or whose AckWait has run out.
JsDeliver(m) ==
    /\ sub.kind = "jetstream"
    /\ SubFree
    /\ sub.msgs[m].state \in {"stream", "pending"}
    /\ sub.msgs[m].deliveries < SubMaxDeliveries
    /\ sub' = [sub EXCEPT !.msgs[m] = [state |-> "handling", deliveries |-> @.deliveries + 1,
                                       result |-> "none", ack |-> FALSE, nak |-> FALSE]]

\* The function handed to cons.Consume, for a handler that returns nil (ok)
\* or an error; sent tells whether msg.Ack() / msg.Nak() reached the server.
JsCallback(m, ok, sent) ==
    /\ sub.kind = "jetstream"
    /\ sub.msgs[m].state = "handling"
    /\ sub' = [sub EXCEPT !.msgs[m] =
                  IF ~ok
                  THEN [@ EXCEPT !.result = "fail", !.nak = TRUE,
                                 !.state = IF sent THEN "stream" ELSE "pending"]
                  ELSE [@ EXCEPT !.result = "ok", !.ack = TRUE,
                                 !.state = IF sent THEN "acked" ELSE "pending"]]

\* XReadGroup with the id ">" and Count 1 returns the next message never
\* delivered to the group and puts it on the group's pending list.
XReadGroup(m) ==
    /\ sub.kind = "redis"
    /\ SubFree
    /\ sub.msgs[m].state = "stream"
    /\ \A k \in SubMsgs : k < m => sub.msgs[k].deliveries > 0
    /\ sub.msgs[m].deliveries < SubMaxDeliveries
    /\ sub' = [sub EXCEPT !.msgs[m] = [state |-> "handling", deliveries |-> @.deliveries + 1,
                                       result |-> "none", ack |-> FALSE, nak |-> FALSE]]

\* The body of the loop over s.Messages, for a handler that returns nil (ok)
\* or an error; sent tells whether XAck succeeded.
StreamProcess(m, ok, sent) ==
    /\ sub.kind = "redis"
    /\ sub.msgs[m].state = "handling"
    /\ sub' = [sub EXCEPT !.msgs[m] =
                  IF ~ok
                  THEN [@ EXCEPT !.result = "fail", !.state = "pending"]
                  ELSE [@ EXCEPT !.result = "ok", !.ack = TRUE,
                                 !.state = IF sent THEN "acked" ELSE "pending"]]

(***************************************************************************)
(*                           Specifications                                *)
(***************************************************************************)

LfInitVars == New

\* Concurrent AddFront / AddBack on one lock-free list.
InitList == LfInitVars /\ HpInitVars /\ MlInitVars /\ SubInitVars /\ ZInitVars /\ BpInitVars /\ SlInitVars /\ BfInitVars /\ SmInitVars

NextList ==
    \/ \E t \in LfThreads : AddFront(t) /\ UNCHANGED <<zVars, bpVars, slVars, bfVars, smVars, hpVars, mlVars, subVars>>
    \/ \E t \in LfThreads : AddBack(t) /\ UNCHANGED <<zVars, bpVars, slVars, bfVars, smVars, hpVars, mlVars, subVars>>
    \/ \E t \in LfThreads : AddLoad(t) /\ UNCHANGED <<zVars, bpVars, slVars, bfVars, smVars, hpVars, mlVars, subVars>>
    \/ \E t \in LfThreads : AddLink(t) /\ UNCHANGED <<zVars, bpVars, slVars, bfVars, smVars, hpVars, mlVars, subVars>>
    \/ \E t \in LfThreads : AddNeighbour(t) /\ UNCHANGED <<zVars, bpVars, slVars, bfVars, smVars, hpVars, mlVars, subVars>>
    \/ \E t \in LfThreads : AddCAS(t) /\ UNCHANGED <<zVars, bpVars, slVars, bfVars, smVars, hpVars, mlVars, subVars>>
    \/ \E t \in LfThreads : AddCheckEnd(t) /\ UNCHANGED <<zVars, bpVars, slVars, bfVars, smVars, hpVars, mlVars, subVars>>
    \/ \E t \in LfThreads : AddFixEnd(t) /\ UNCHANGED <<zVars, bpVars, slVars, bfVars, smVars, hpVars, mlVars, subVars>>
    \/ \E t \in LfThreads : AddLen(t) /\ UNCHANGED <<zVars, bpVars, slVars, bfVars, smVars, hpVars, mlVars, subVars>>

SpecList == InitList /\ [][NextList]_vars

\* One caller of the ordered set.
InitZSet == LfInitVars /\ HpInitVars /\ MlInitVars /\ SubInitVars /\ ZInitVars /\ BpInitVars /\ SlInitVars /\ BfInitVars /\ SmInitVars

NextZSet ==
    \/ \E ele \in ZEles, score \in ZScores : ZAdd(ele, score) /\ UNCHANGED <<lfVars, bpVars, slVars, bfVars, smVars, zrr, hpVars, mlVars, subVars>>
    \/ \E ele \in ZEles : ZRem(ele) /\ UNCHANGED <<lfVars, bpVars, slVars, bfVars, smVars, zrr, hpVars, mlVars, subVars>>

SpecZSet == InitZSet /\ [][NextZSet]_vars

\* Concurrent writers of the ordered set and one reader calling ZRevRank.
InitZSetRevRank == LfInitVars /\ HpInitVars /\ MlInitVars /\ SubInitVars /\ ZInitVars /\ BpInitVars /\ SlInitVars /\ BfInitVars /\ SmInitVars

NextZSetRevRank ==
    \/ \E t \in ZThreads, ele \in ZEles, score \in ZScores :
          ZAddLock(t, ele, score) /\ ZObserve /\ UNCHANGED <<lfVars, bpVars, slVars, bfVars, smVars, hpVars, mlVars, subVars>>
    \/ \E t \in ZThreads : ZAddRem(t) /\ ZObserve /\ UNCHANGED <<lfVars, bpVars, slVars, bfVars, smVars, hpVars, mlVars, subVars>>
    \/ \E t \in ZThreads : ZAddInsert(t) /\ ZObserve /\ UNCHANGED <<lfVars, bpVars, slVars, bfVars, smVars, hpVars, mlVars, subVars>>
    \/ \E t \in ZThreads, ele \in ZEles :
          ZRemLocked(t, ele) /\ ZObserve /\ UNCHANGED <<lfVars, bpVars, slVars, bfVars, smVars, hpVars, mlVars, subVars>>
    \/ \E ele \in ZEles : ZRevRankCall(ele) /\ UNCHANGED <<lfVars, bpVars, slVars, bfVars, smVars, hpVars, mlVars, subVars>>
    \/ ZRevRankRank /\ UNCHANGED <<lfVars, bpVars, slVars, bfVars, smVars, hpVars, mlVars, subVars>>
    \/ ZRevRankLen /\ UNCHANGED <<lfVars, bpVars, slVars, bfVars, smVars, hpVars, mlVars, subVars>>

SpecZSetRevRank == InitZSetRevRank /\ [][NextZSetRevRank]_vars

\* One caller of the ordered set, starting right after the first ZAdd on a
\* new set.
InitZSetOne ==
    /\ LfInitVars /\ HpInitVars /\ MlInitVars /\ SubInitVars /\ BpInitVars /\ SlInitVars /\ BfInitVars /\ SmInitVars
    /\ \E ele \in ZEles, score \in ZScores, curLevel \in randomLevel :
          /\ zset = ZInsertBody(NewZSet, ele, score, curLevel)
          /\ zlast = [op |-> "ZAdd", ele |-> ele, score |-> score,
                      ret |-> TRUE, replaced |-> FALSE]
    /\ zmu = FALSE
    /\ zpc = [t \in ZThreads |-> "idle"]
    /\ zarg = [t \in ZThreads |-> [ele |-> 0, score |-> 0]]
    /\ zOps = 0
    /\ zrr = ZNoRevRank

SpecZSetOne == InitZSetOne /\ [][NextZSet]_vars

\* Concurrent writers of the ordered set.
InitZSetConc == LfInitVars /\ HpInitVars /\ MlInitVars /\ SubInitVars /\ ZInitVars /\ BpInitVars /\ SlInitVars /\ BfInitVars /\ SmInitVars

NextZSetConc ==
    \/ \E t \in ZThreads, ele \in ZEles, score \in ZScores :
          ZAddLock(t, ele, score) /\ UNCHANGED <<lfVars, bpVars, slVars, bfVars, smVars, zrr, hpVars, mlVars, subVars>>
    \/ \E t \in ZThreads : ZAddRem(t) /\ UNCHANGED <<lfVars, bpVars, slVars, bfVars, smVars, zrr, hpVars, mlVars, subVars>>
    \/ \E t \in ZThreads : ZAddInsert(t) /\ UNCHANGED <<lfVars, bpVars, slVars, bfVars, smVars, zrr, hpVars, mlVars, subVars>>
    \/ \E t \in ZThreads, ele \in ZEles : ZRemLocked(t, ele) /\ UNCHANGED <<lfVars, bpVars, slVars, bfVars, smVars, zrr, hpVars, mlVars, subVars>>

SpecZSetConc == InitZSetConc /\ [][NextZSetConc]_vars

\* One owner of the B+ tree.
InitBPTree == LfInitVars /\ HpInitVars /\ MlInitVars /\ SubInitVars /\ ZInitVars /\ BpInit(BpScripts) /\ SlInitVars /\ BfInitVars /\ SmInitVars

NextBPTree ==
    \/ \E key \in BpKeys, value \in BpVals : Insert(key, value) /\ UNCHANGED <<lfVars, zVars, slVars, bfVars, smVars, hpVars, mlVars, subVars>>
    \/ \E key \in BpKeys : Delete(key) /\ UNCHANGED <<lfVars, zVars, slVars, bfVars, smVars, hpVars, mlVars, subVars>>

SpecBPTree == InitBPTree /\ [][NextBPTree]_vars

\* One owner of the B+ tree, observed through RangeQuery.
InitBPRange == LfInitVars /\ HpInitVars /\ MlInitVars /\ SubInitVars /\ ZInitVars /\ BpInit(BpRangeScripts) /\ SlInitVars /\ BfInitVars /\ SmInitVars

NextBPRange ==
    \/ \E key \in BpRangeKeys, value \in BpVals : Insert(key, value) /\ UNCHANGED <<lfVars, zVars, slVars, bfVars, smVars, hpVars, mlVars, subVars>>
    \/ \E key \in BpRangeKeys : Delete(key) /\ UNCHANGED <<lfVars, zVars, slVars, bfVars, smVars, hpVars, mlVars, subVars>>

SpecBPRange == InitBPRange /\ [][NextBPRange]_vars

\* One caller of one list built by NewConcurrentList or NewIndexedList.
InitSeqList == LfInitVars /\ HpInitVars /\ MlInitVars /\ SubInitVars /\ ZInitVars /\ BpInitVars /\ SlInit({NewConcurrentList, NewIndexedList}) /\ BfInitVars /\ SmInitVars

NextSeqList ==
    \/ \E l \in {1}, key \in SlKeys, val \in SlVals :
          CallAddFront(l, key, val) /\ UNCHANGED <<lfVars, zVars, bpVars, bfVars, smVars, hpVars, mlVars, subVars>>
    \/ \E l \in {1}, key \in SlKeys, val \in SlVals :
          CallAddBack(l, key, val) /\ UNCHANGED <<lfVars, zVars, bpVars, bfVars, smVars, hpVars, mlVars, subVars>>
    \/ \E l \in {1}, h \in 1..Len(sl.nodes) :
          CallRemove(l, h) /\ UNCHANGED <<lfVars, zVars, bpVars, bfVars, smVars, hpVars, mlVars, subVars>>
    \/ \E l \in {1}, h \in 1..Len(sl.nodes) :
          CallMoveToFront(l, h) /\ UNCHANGED <<lfVars, zVars, bpVars, bfVars, smVars, hpVars, mlVars, subVars>>
    \/ \E h \in 1..Len(sl.nodes), v \in SlVals :
          CallSetValue(h, v) /\ UNCHANGED <<lfVars, zVars, bpVars, bfVars, smVars, hpVars, mlVars, subVars>>
    \/ \E l \in {1} : CallClear(l) /\ UNCHANGED <<lfVars, zVars, bpVars, bfVars, smVars, hpVars, mlVars, subVars>>
    \/ \E l \in {1}, key \in SlKeys :
          CallFind(l, key) /\ UNCHANGED <<lfVars, zVars, bpVars, bfVars, smVars, hpVars, mlVars, subVars>>

SpecSeqList == InitSeqList /\ [][NextSeqList]_vars

\* Three goroutines, each calling Remove, AddFront or AddBack once on a list
\* of LfLinked elements.
InitListRemove ==
    NewLinked /\ HpInitVars /\ MlInitVars /\ SubInitVars /\ ZInitVars /\ BpInitVars /\ SlInitVars /\ BfInitVars /\ SmInitVars

NextListRemove ==
    \/ NextList
    \/ \E t \in LfRemovers, e \in LfLinkedElems :
          Remove(t, e) /\ UNCHANGED <<zVars, bpVars, slVars, bfVars, smVars, hpVars, mlVars, subVars>>
    \/ \E t \in LfRemovers : RemoveLoadPrev(t) /\ UNCHANGED <<zVars, bpVars, slVars, bfVars, smVars, hpVars, mlVars, subVars>>
    \/ \E t \in LfRemovers : RemoveLoadNext(t) /\ UNCHANGED <<zVars, bpVars, slVars, bfVars, smVars, hpVars, mlVars, subVars>>
    \/ \E t \in LfRemovers : RemoveCASPrev(t) /\ UNCHANGED <<zVars, bpVars, slVars, bfVars, smVars, hpVars, mlVars, subVars>>
    \/ \E t \in LfRemovers : RemoveCASNext(t) /\ UNCHANGED <<zVars, bpVars, slVars, bfVars, smVars, hpVars, mlVars, subVars>>
    \/ \E t \in LfRemovers : RemoveLen(t) /\ UNCHANGED <<zVars, bpVars, slVars, bfVars, smVars, hpVars, mlVars, subVars>>
    \/ \E t \in LfRemovers : RemoveUnlist(t) /\ UNCHANGED <<zVars, bpVars, slVars, bfVars, smVars, hpVars, mlVars, subVars>>

\* One step of goroutine t.
LfStep(t) ==
    /\ \/ AddFront(t) \/ AddBack(t) \/ AddLoad(t) \/ AddLink(t) \/ AddNeighbour(t)
       \/ AddCAS(t) \/ AddCheckEnd(t) \/ AddFixEnd(t) \/ AddLen(t)
       \/ \E e \in LfLinkedElems : Remove(t, e)
       \/ RemoveLoadPrev(t) \/ RemoveLoadNext(t) \/ RemoveCASPrev(t) \/ RemoveCASNext(t)
       \/ RemoveLen(t) \/ RemoveUnlist(t)
    /\ UNCHANGED <<zVars, bpVars, slVars, bfVars, smVars, hpVars, mlVars, subVars>>

SpecListRemove == InitListRemove /\ [][NextListRemove]_vars

\* The Go scheduler runs a goroutine that stays runnable: each goroutine goes
\* on taking its steps.
FairListRemove == SpecListRemove /\ \A t \in LfRemovers : WF_vars(LfStep(t))

\* One caller of one list built by NewLRUCache(capacity).
InitLRUList ==
    /\ LfInitVars /\ HpInitVars /\ MlInitVars /\ SubInitVars /\ ZInitVars /\ BpInitVars /\ SlInit({NewLRUCache(c) : c \in 0..SlMaxCap})
    /\ BfInitVars /\ SmInitVars

NextLRUList ==
    \/ \E l \in {1}, key \in SlKeys, val \in SlVals :
          CallAddFront(l, key, val) /\ UNCHANGED <<lfVars, zVars, bpVars, bfVars, smVars, hpVars, mlVars, subVars>>
    \/ \E l \in {1}, key \in SlKeys, val \in SlVals :
          CallAddBack(l, key, val) /\ UNCHANGED <<lfVars, zVars, bpVars, bfVars, smVars, hpVars, mlVars, subVars>>
    \/ \E l \in {1}, h \in 1..Len(sl.nodes) :
          CallRemove(l, h) /\ UNCHANGED <<lfVars, zVars, bpVars, bfVars, smVars, hpVars, mlVars, subVars>>
    \/ \E l \in {1}, h \in 1..Len(sl.nodes) :
          CallMoveToFront(l, h) /\ UNCHANGED <<lfVars, zVars, bpVars, bfVars, smVars, hpVars, mlVars, subVars>>
    \/ \E h \in 1..Len(sl.nodes), v \in SlVals :
          CallSetValue(h, v) /\ UNCHANGED <<lfVars, zVars, bpVars, bfVars, smVars, hpVars, mlVars, subVars>>
    \/ \E l \in {1}, key \in SlKeys :
          CallFind(l, key) /\ UNCHANGED <<lfVars, zVars, bpVars, bfVars, smVars, hpVars, mlVars, subVars>>

SpecLRUList == InitLRUList /\ [][NextLRUList]_vars

\* One caller of one list without or with the LRU capability, with update
\* callbacks.
InitListHooks ==
    /\ LfInitVars /\ HpInitVars /\ MlInitVars /\ SubInitVars /\ ZInitVars /\ BpInitVars
    /\ SlInit({NewIndexedList, NewLRUCache(SlMaxCap)})
    /\ BfInitVars /\ SmInitVars

NextListHooks ==
    \/ \E l \in {1} : CallOnUpdate(l) /\ UNCHANGED <<lfVars, zVars, bpVars, bfVars, smVars, hpVars, mlVars, subVars>>
    \/ \E l \in {1}, key \in SlKeys, val \in SlVals :
          CallAddFront(l, key, val) /\ UNCHANGED <<lfVars, zVars, bpVars, bfVars, smVars, hpVars, mlVars, subVars>>
    \/ \E l \in {1}, key \in SlKeys, val \in SlVals :
          CallAddBack(l, key, val) /\ UNCHANGED <<lfVars, zVars, bpVars, bfVars, smVars, hpVars, mlVars, subVars>>
    \/ \E l \in {1}, h \in 1..Len(sl.nodes) :
          CallRemove(l, h) /\ UNCHANGED <<lfVars, zVars, bpVars, bfVars, smVars, hpVars, mlVars, subVars>>
    \/ \E l \in {1}, h \in 1..Len(sl.nodes) :
          CallMoveToFront(l, h) /\ UNCHANGED <<lfVars, zVars, bpVars, bfVars, smVars, hpVars, mlVars, subVars>>
    \/ \E h \in 1..Len(sl.nodes), v \in SlVals :
          CallSetValue(h, v) /\ UNCHANGED <<lfVars, zVars, bpVars, bfVars, smVars, hpVars, mlVars, subVars>>
    \/ \E l \in {1}, key \in SlKeys :
          CallFind(l, key) /\ UNCHANGED <<lfVars, zVars, bpVars, bfVars, smVars, hpVars, mlVars, subVars>>

SpecListHooks == InitListHooks /\ [][NextListHooks]_vars

\* One caller of one list built by any of the three constructors, with insert
\* and remove callbacks; every node is given the value 1.
InitListCallbacks ==
    /\ LfInitVars /\ HpInitVars /\ MlInitVars /\ SubInitVars /\ ZInitVars /\ BpInitVars
    /\ \E cfg \in {NewConcurrentList, NewIndexedList, NewLRUCache(SlMaxCap)} :
          sl = [SlNew(cfg) EXCEPT !.observe = TRUE]
    /\ slLast = SlNoCall
    /\ slOps = 0
    /\ BfInitVars /\ SmInitVars

NextListCallbacks ==
    \/ \E l \in {1} : CallOnInsert(l) /\ UNCHANGED <<lfVars, zVars, bpVars, bfVars, smVars, hpVars, mlVars, subVars>>
    \/ \E l \in {1} : CallOnRemove(l) /\ UNCHANGED <<lfVars, zVars, bpVars, bfVars, smVars, hpVars, mlVars, subVars>>
    \/ \E l \in {1}, key \in SlKeys, val \in {1} :
          CallAddFront(l, key, val) /\ UNCHANGED <<lfVars, zVars, bpVars, bfVars, smVars, hpVars, mlVars, subVars>>
    \/ \E l \in {1}, key \in SlKeys, val \in {1} :
          CallAddBack(l, key, val) /\ UNCHANGED <<lfVars, zVars, bpVars, bfVars, smVars, hpVars, mlVars, subVars>>
    \/ \E l \in {1}, h \in 1..Len(sl.nodes) :
          CallRemove(l, h) /\ UNCHANGED <<lfVars, zVars, bpVars, bfVars, smVars, hpVars, mlVars, subVars>>

SpecListCallbacks == InitListCallbacks /\ [][NextListCallbacks]_vars

\* One caller of two lists built by NewConcurrentList.
InitTwoLists == LfInitVars /\ HpInitVars /\ MlInitVars /\ SubInitVars /\ ZInitVars /\ BpInitVars /\ SlInit({NewConcurrentList}) /\ BfInitVars /\ SmInitVars

NextTwoLists ==
    \/ \E l \in SlLists, key \in SlKeys, val \in SlVals :
          CallAddFront(l, key, val) /\ UNCHANGED <<lfVars, zVars, bpVars, bfVars, smVars, hpVars, mlVars, subVars>>
    \/ \E l \in SlLists, key \in SlKeys, val \in SlVals :
          CallAddBack(l, key, val) /\ UNCHANGED <<lfVars, zVars, bpVars, bfVars, smVars, hpVars, mlVars, subVars>>
    \/ \E l \in SlLists, h \in 1..Len(sl.nodes) :
          CallRemove(l, h) /\ UNCHANGED <<lfVars, zVars, bpVars, bfVars, smVars, hpVars, mlVars, subVars>>
    \/ \E l \in SlLists, h \in 1..Len(sl.nodes) :
          CallMoveToFront(l, h) /\ UNCHANGED <<lfVars, zVars, bpVars, bfVars, smVars, hpVars, mlVars, subVars>>
    \/ \E h \in 1..Len(sl.nodes), v \in SlVals :
          CallSetValue(h, v) /\ UNCHANGED <<lfVars, zVars, bpVars, bfVars, smVars, hpVars, mlVars, subVars>>
    \/ \E l \in SlLists : CallClear(l) /\ UNCHANGED <<lfVars, zVars, bpVars, bfVars, smVars, hpVars, mlVars, subVars>>
    \/ \E l \in SlLists, key \in SlKeys :
          CallFind(l, key) /\ UNCHANGED <<lfVars, zVars, bpVars, bfVars, smVars, hpVars, mlVars, subVars>>

SpecTwoLists == InitTwoLists /\ [][NextTwoLists]_vars

\* One caller of one Bloom filter.
InitBloom ==
    /\ LfInitVars /\ HpInitVars /\ MlInitVars /\ SubInitVars /\ ZInitVars /\ BpInitVars /\ SlInitVars /\ SmInitVars
    /\ BfInit({<<>>})

NextBloom ==
    \/ \E item \in BfItems : CallBfAdd(item) /\ UNCHANGED <<lfVars, zVars, bpVars, slVars, smVars, hpVars, mlVars, subVars>>
    \/ \E item \in BfItems : CallBfContains(item) /\ UNCHANGED <<lfVars, zVars, bpVars, slVars, smVars, hpVars, mlVars, subVars>>
    \/ CallBfReset /\ UNCHANGED <<lfVars, zVars, bpVars, slVars, smVars, hpVars, mlVars, subVars>>

SpecBloom == InitBloom /\ [][NextBloom]_vars

\* The bit positions computed on new filters of several sizes.
InitBloomIndex ==
    /\ LfInitVars /\ HpInitVars /\ MlInitVars /\ SubInitVars /\ ZInitVars /\ BpInitVars /\ SlInitVars /\ SmInitVars
    /\ \E z \in BfIndexSizes : bf = NewBloomFilter(z.m, z.k)
    /\ bfAdded = {}
    /\ bfLast = BfNoCall
    /\ bfThr = [t \in BfThreads |-> BfIdle]
    /\ bfOps = 0

NextBloomIndex ==
    \E item \in BfItems : CallBfPositions(item) /\ UNCHANGED <<lfVars, zVars, bpVars, slVars, smVars, hpVars, mlVars, subVars>>

SpecBloomIndex == InitBloomIndex /\ [][NextBloomIndex]_vars

\* Goroutines calling Contains, and writers calling Add, on a filter that
\* already holds one item and whose hashers are freshly reset.
InitBloomConc ==
    /\ LfInitVars /\ HpInitVars /\ MlInitVars /\ SubInitVars /\ ZInitVars /\ BpInitVars /\ SlInitVars /\ SmInitVars
    /\ BfInit({<<x>> : x \in BfItems})

NextBloomConc ==
    \/ \E t \in BfThreads, item \in BfItems :
          ContainsRLock(t, item) /\ UNCHANGED <<lfVars, zVars, bpVars, slVars, smVars, hpVars, mlVars, subVars>>
    \/ \E t \in BfThreads : ContainsWrite(t) /\ UNCHANGED <<lfVars, zVars, bpVars, slVars, smVars, hpVars, mlVars, subVars>>
    \/ \E t \in BfThreads : ContainsSum(t) /\ UNCHANGED <<lfVars, zVars, bpVars, slVars, smVars, hpVars, mlVars, subVars>>
    \/ \E t \in BfThreads : ContainsReset(t) /\ UNCHANGED <<lfVars, zVars, bpVars, slVars, smVars, hpVars, mlVars, subVars>>
    \/ \E item \in BfItems : AddLocked(item) /\ UNCHANGED <<lfVars, zVars, bpVars, slVars, smVars, hpVars, mlVars, subVars>>

SpecBloomConc == InitBloomConc /\ [][NextBloomConc]_vars

\* One RangeUpdate call with its workers, and other goroutines calling Store.
InitRangeUpdate ==
    /\ LfInitVars /\ HpInitVars /\ MlInitVars /\ SubInitVars /\ ZInitVars /\ BpInitVars /\ SlInitVars /\ BfInitVars
    /\ SmInit(SmMaps)

NextRangeUpdate ==
    \/ \E fn \in SmFns : RangeUpdate(fn) /\ UNCHANGED <<lfVars, zVars, bpVars, slVars, bfVars, hpVars, mlVars, subVars>>
    \/ \E key \in SmKeys : RangeVisit(key) /\ UNCHANGED <<lfVars, zVars, bpVars, slVars, bfVars, hpVars, mlVars, subVars>>
    \/ \E n \in 1..SmNumCPU :
          StartWorkers(n) /\ UNCHANGED <<lfVars, zVars, bpVars, slVars, bfVars, hpVars, mlVars, subVars>>
    \/ SendItem /\ UNCHANGED <<lfVars, zVars, bpVars, slVars, bfVars, hpVars, mlVars, subVars>>
    \/ CloseCh /\ UNCHANGED <<lfVars, zVars, bpVars, slVars, bfVars, hpVars, mlVars, subVars>>
    \/ \E w \in SmWorkers : WorkerRecv(w) /\ UNCHANGED <<lfVars, zVars, bpVars, slVars, bfVars, hpVars, mlVars, subVars>>
    \/ \E w \in SmWorkers : WorkerStore(w) /\ UNCHANGED <<lfVars, zVars, bpVars, slVars, bfVars, hpVars, mlVars, subVars>>
    \/ \E w \in SmWorkers : WorkerDone(w) /\ UNCHANGED <<lfVars, zVars, bpVars, slVars, bfVars, hpVars, mlVars, subVars>>
    \/ RangeUpdateReturn /\ UNCHANGED <<lfVars, zVars, bpVars, slVars, bfVars, hpVars, mlVars, subVars>>
    \/ \E key \in SmKeys, value \in SmVals :
          ExternalStore(key, value) /\ UNCHANGED <<lfVars, zVars, bpVars, slVars, bfVars, hpVars, mlVars, subVars>>

SpecRangeUpdate == InitRangeUpdate /\ [][NextRangeUpdate]_vars

\* The steps of RangeUpdate itself and of its workers.  The Go scheduler runs
\* a goroutine that stays runnable, so such a step is taken when one stays
\* possible; nothing is assumed of the other goroutines.
RangeUpdateStep ==
    /\ \/ \E key \in SmKeys : RangeVisit(key)
       \/ \E n \in 1..SmNumCPU : StartWorkers(n)
       \/ SendItem
       \/ CloseCh
       \/ \E w \in SmWorkers : WorkerRecv(w) \/ WorkerStore(w) \/ WorkerDone(w)
       \/ RangeUpdateReturn
    /\ UNCHANGED <<lfVars, zVars, bpVars, slVars, bfVars, hpVars, mlVars, subVars>>

\* The same on an empty map and on the map holding value 1 for every key.
InitRangeUpdateFair ==
    /\ LfInitVars /\ HpInitVars /\ MlInitVars /\ SubInitVars /\ ZInitVars /\ BpInitVars /\ SlInitVars /\ BfInitVars
    /\ SmInit({{}, {[k |-> k, v |-> 1] : k \in SmKeys}})

FairRangeUpdate ==
    InitRangeUpdateFair /\ [][NextRangeUpdate]_vars /\ WF_vars(RangeUpdateStep)

\* RangeUpdate on the map holding value 1 for every key, while another
\* goroutine stores or deletes.
InitRangeDelete ==
    /\ LfInitVars /\ HpInitVars /\ MlInitVars /\ SubInitVars /\ ZInitVars /\ BpInitVars /\ SlInitVars /\ BfInitVars
    /\ SmInit({{[k |-> k, v |-> 1] : k \in SmKeys}})

NextRangeDelete ==
    \/ NextRangeUpdate
    \/ \E key \in SmKeys :
          ExternalDelete(key) /\ UNCHANGED <<lfVars, zVars, bpVars, slVars, bfVars, hpVars, mlVars, subVars>>

SpecRangeDelete == InitRangeDelete /\ [][NextRangeDelete]_vars

\* One caller of one heap built by NewHeap(capacity, compareFn).
InitHeap ==
    /\ LfInitVars /\ ZInitVars /\ BpInitVars /\ SlInitVars /\ BfInitVars /\ SmInitVars
    /\ MlInitVars /\ SubInitVars
    /\ \E capacity \in 0..HpMaxCap, c \in HpCompareFns : hp = NewHeap(capacity, c)
    /\ hpLast = HpNoCall
    /\ hpOps = 0

NextHeap ==
    \/ \E value \in HpVals :
          CallInsert(value) /\ UNCHANGED <<lfVars, zVars, bpVars, slVars, bfVars, smVars, mlVars, subVars>>
    \/ CallPop /\ UNCHANGED <<lfVars, zVars, bpVars, slVars, bfVars, smVars, mlVars, subVars>>

SpecHeap == InitHeap /\ [][NextHeap]_vars

\* The arrays of at most n elements.
HpArrays(n) == UNION {[1..k -> HpVals] : k \in 0..n}

\* HeapSorted is about to be called on an array, with either comparison.
InitHeapSort ==
    /\ LfInitVars /\ ZInitVars /\ BpInitVars /\ SlInitVars /\ BfInitVars /\ SmInitVars
    /\ MlInitVars /\ SubInitVars
    /\ hp = NewHeap(0, [fn |-> "MinHeap", reverse |-> FALSE])
    /\ \E arr \in HpArrays(HpMaxCap), c \in HpCompareFns :
          hpLast = [op |-> "input", arg |-> [arr |-> arr, compareFn |-> c], ret |-> <<>>,
                    err |-> FALSE]
    /\ hpOps = 0

NextHeapSort ==
    CallHeapSorted /\ UNCHANGED <<lfVars, zVars, bpVars, slVars, bfVars, smVars, mlVars, subVars>>

SpecHeapSort == InitHeapSort /\ [][NextHeapSort]_vars

\* Goroutines calling AddBack, AddFront and Remove on one list built by
\* New(true).
InitMutexList ==
    /\ LfInitVars /\ ZInitVars /\ BpInitVars /\ SlInitVars /\ BfInitVars /\ SmInitVars
    /\ HpInitVars /\ SubInitVars
    /\ MlInit

NextMutexList ==
    \/ \E t \in MlThreads, op \in {"AddBack", "AddFront"} :
          MlCallAdd(t, op) /\ UNCHANGED <<lfVars, zVars, bpVars, slVars, bfVars, smVars, hpVars, subVars>>
    \/ \E t \in MlThreads, n \in MlLinkedNodes :
          MlCallRemove(t, n) /\ UNCHANGED <<lfVars, zVars, bpVars, slVars, bfVars, smVars, hpVars, subVars>>
    \/ \E t \in MlThreads :
          MlLock(t) /\ UNCHANGED <<lfVars, zVars, bpVars, slVars, bfVars, smVars, hpVars, subVars>>
    \/ \E t \in MlThreads :
          MlBody(t) /\ UNCHANGED <<lfVars, zVars, bpVars, slVars, bfVars, smVars, hpVars, subVars>>

SpecMutexList == InitMutexList /\ [][NextMutexList]_vars

\* One consumer of either kind on a stream of SubNumMsgs messages.
InitSubscribe ==
    /\ LfInitVars /\ ZInitVars /\ BpInitVars /\ SlInitVars /\ BfInitVars /\ SmInitVars
    /\ HpInitVars /\ MlInitVars
    /\ SubInit

NextSubscribe ==
    \/ \E m \in SubMsgs :
          JsDeliver(m) /\ UNCHANGED <<lfVars, zVars, bpVars, slVars, bfVars, smVars, hpVars, mlVars>>
    \/ \E m \in SubMsgs, ok \in BOOLEAN, sent \in BOOLEAN :
          JsCallback(m, ok, sent) /\ UNCHANGED <<lfVars, zVars, bpVars, slVars, bfVars, smVars, hpVars, mlVars>>
    \/ \E m \in SubMsgs :
          XReadGroup(m) /\ UNCHANGED <<lfVars, zVars, bpVars, slVars, bfVars, smVars, hpVars, mlVars>>
    \/ \E m \in SubMsgs, ok \in BOOLEAN, sent \in BOOLEAN :
          StreamProcess(m, ok, sent) /\ UNCHANGED <<lfVars, zVars, bpVars, slVars, bfVars, smVars, hpVars, mlVars>>

SpecSubscribe == InitSubscribe /\ [][NextSubscribe]_vars

\* Goroutines calling Store and Load on a zero-value SafeMap.
InitSafeMap ==
    LfInitVars /\ HpInitVars /\ MlInitVars /\ SubInitVars /\ ZInitVars /\ BpInitVars /\ SlInitVars /\ BfInitVars /\ SmInitVars

NextSafeMap ==
    \/ \E key \in SmKeys, value \in SmVals :
          CallStore(key, value) /\ UNCHANGED <<lfVars, zVars, bpVars, slVars, bfVars, hpVars, mlVars, subVars>>
    \/ \E key \in SmKeys : CallLoad(key) /\ UNCHANGED <<lfVars, zVars, bpVars, slVars, bfVars, hpVars, mlVars, subVars>>

SpecSafeMap == InitSafeMap /\ [][NextSafeMap]_vars


(***************************************************************************)
(*                        Properties: B+ tree                              *)
(***************************************************************************)

\* What Find(k) returns on a map m.
BpExpectFind(m, k) ==
    IF k \in DOMAIN m /\ m[k] # 0 THEN [v |-> m[k], ok |-> TRUE]
    ELSE [v |-> 0, ok |-> FALSE]

BpInternals(t) == {id \in BpNodes(t) : ~t.heap[id].leaf}

\* C6: the tree behaves as a map.  Find(k) returns (v, true) exactly when k
\* was inserted and not deleted since, v being the value of the latest
\* Insert of k, and Delete(k) returns true exactly when k was present.
C6_MapRefinement ==
    /\ \A k \in 0..(MaxKey + 1) : BPTree_Find(bpt, k) = BpExpectFind(bpShadow, k)
    /\ bpLast.op = "Delete" => bpLast.ret = bpLast.had

\* C6 witness: an Insert overwrote the value of a present key in a tree of
\* three levels.
C6_Witness ==
    /\ bpLast.op = "Insert" /\ bpLast.had /\ bpLast.val = 2
    /\ "update" \in bpt.ev
    /\ BPTree_Find(bpt, bpLast.key) = [v |-> 2, ok |-> TRUE]
    /\ \E id \in BpInternals(bpt) : id # bpt.root

\* C7: every non-root node, leaf or internal, holds between minKeys and
\* maxKeys keys after every Insert or Delete.
C7_NodeFill ==
    bpLast.op \in {"Insert", "Delete"} =>
    \A id \in BpNodes(bpt) \ {bpt.root} :
        /\ Len(bpt.heap[id].keys) >= minKeys
        /\ Len(bpt.heap[id].keys) <= maxKeys

\* C8: each separator keys[i] of every internal node equals the smallest key
\* of the leftmost leaf under children[i+1].
C8_SeparatorIsSmallest ==
    bpLast.op \in {"Insert", "Delete"} =>
    \A id \in BpInternals(bpt) :
        \A i \in 1..Len(bpt.heap[id].keys) :
            LET lf == bpt.heap[BpLeftmost(bpt, bpt.heap[id].children[i + 1])]
            IN Len(lf.keys) > 0 /\ bpt.heap[id].keys[i] = lf.keys[1]

\* C9: an internal node with k keys has k+1 children; every key under
\* children[i] is smaller than keys[i] and every key under children[i+1] is
\* greater than or equal to keys[i].
C9_ChildrenPartition ==
    \A id \in BpInternals(bpt) :
        LET n == bpt.heap[id]
        IN /\ Len(n.children) = Len(n.keys) + 1
           /\ \A i \in 1..Len(n.keys) :
                 /\ i + 1 <= Len(n.children)
                 /\ \A k \in BpKeysUnder(bpt, n.children[i]) : k < n.keys[i]
                 /\ \A k \in BpKeysUnder(bpt, n.children[i + 1]) : k >= n.keys[i]

\* C9 witness: a Delete made an internal node borrow a child from its left
\* sibling through the parent separator.
C9_Witness ==
    /\ bpLast.op = "Delete" /\ bpLast.ret
    /\ "borrowLeftInternal" \in bpt.ev

\* C10: RangeQuery(lo, hi) returns exactly the values of the stored keys in
\* [lo, hi], ascending by key, for any lo and hi.
C10_RangeQuery ==
    \A lo \in 0..(MaxKey + 1), hi \in 0..(MaxKey + 1) :
        RangeQuery(bpt, lo, hi) = BpExpectRange(bpShadow, lo, hi)

\* C10 witness: after a Delete merged two leaves, a query whose lower bound
\* is below every stored key returns values from more than one leaf.
C10_Witness ==
    /\ bpLast.op = "Delete" /\ bpLast.ret
    /\ "mergeLeaf" \in bpt.ev
    /\ bpShadow[1] = 0
    /\ Len(RangeQuery(bpt, 0, MaxKey + 1)) > maxKeys

\* C11: walking next from the first leaf (leafHeader) visits every stored
\* key exactly once, in strictly ascending order, and then ends.
C11_LeafChain ==
    BpLeafChain(bpt) = [keys |-> BpExpectKeys(bpShadow, 1), ended |-> TRUE]

\* C11 witness: a Delete merged two leaves and the chain still runs over
\* more than one leaf.
C11_Witness ==
    /\ BpLeafChain(bpt).ended
    /\ Len(BpLeafChain(bpt).keys) > maxKeys
    /\ bpLast.op = "Delete" /\ bpLast.ret /\ "mergeLeaf" \in bpt.ev

(***************************************************************************)
(*                      Properties: lock-free list                         *)
(***************************************************************************)

\* C1: concurrent AddFront / AddBack calls are linearizable.  Once all calls
\* have returned, Len equals the number of calls, the walk from head along
\* next visits every inserted node exactly once, and the walk from tail
\* along prev visits the same nodes in the reverse order.
C1_AddLinearizable ==
    LfAllReturned =>
        /\ lfLen = NumThreads
        /\ Len(WalkFromHead) = NumThreads
        /\ SeqRange(WalkFromHead) = LfElems
        /\ WalkFromTail = Reverse(WalkFromHead)

(***************************************************************************)
(*                       Properties: ordered set                           *)
(***************************************************************************)

\* The dictionary maps e to s exactly when the skip-list holds exactly one
\* node (e, s), and no linked node carries an element outside the dictionary.
ZDictMatchesList(z) ==
    /\ \A e \in ZEles, s \in ZScores :
          (e \in DOMAIN z.dict /\ z.dict[e] = s)
          <=> Cardinality({n \in ZLinked(z) :
                              z.nodes[n].ele = e /\ z.nodes[n].score = s}) = 1
    /\ \A n \in ZLinked(z) : z.nodes[n].ele \in DOMAIN z.dict

\* C2: rank agrees with the ordering.  For present e1, e2 with
\* rank(e1) < rank(e2), e1 orders before e2 (greater score, or equal score
\* and greater element), and rank(e) is the number of present elements
\* ordered before e.
C2_RankAgreesWithOrder ==
    /\ \A e \in DOMAIN zset.dict :
          ZRank(zset, e) = [rank |-> ZCountBefore(zset, e), ok |-> TRUE]
    /\ \A e1 \in DOMAIN zset.dict, e2 \in DOMAIN zset.dict :
          ZRank(zset, e1).rank < ZRank(zset, e2).rank
          => ZBefore([score |-> zset.dict[e1], ele |-> e1], zset.dict[e2], e2)

\* C3: for every level in use and every link between two nodes (the header
\* included), the span equals the number of level-0 hops between the two
\* endpoints.
C3_SpanIsHops ==
    \A id \in ZLinked(zset) \cup {ZHdr} :
        \A i \in DOMAIN zset.nodes[id].level :
            (i < zset.level /\ zset.nodes[id].level[i].forward # Nil)
            => zset.nodes[id].level[i].span
                 = ZPos(zset, zset.nodes[id].level[i].forward) - ZPos(zset, id)

\* C4: writes serialize.  Under any interleaving of concurrent ZAdd / ZRem
\* calls, once all calls have returned the skip-list holds exactly one node
\* for each dictionary element, carrying the dictionary's score, and no
\* node for any other element.
C4_WritesSerialize ==
    ZAllReturned => ZDictMatchesList(zset)

\* C5: after every ZAdd or ZRem by a single caller returns, the dictionary
\* maps e to s exactly when the skip-list contains exactly one node (e, s),
\* and the recorded length equals the number of dictionary entries.
C5_DictionaryInvariant ==
    /\ ZDictMatchesList(zset)
    /\ zset.length = Cardinality(DOMAIN zset.dict)

\* C5 witness: a ZAdd changed the score of a present element while another
\* element was in the set.
C5_Witness ==
    /\ zlast.op = "ZAdd" /\ zlast.ret /\ zlast.replaced
    /\ zset.dict[zlast.ele] = zlast.score
    /\ zset.length >= 2

\* C24: ZAdd(e, s) on an element that is already present with score s
\* returns false and leaves the dictionary, the skip-list and the length
\* unchanged.
C24_SameScoreNoChange ==
    [][(/\ zOps' # zOps
        /\ zlast'.op = "ZAdd"
        /\ zlast'.ele \in DOMAIN zset.dict
        /\ zset.dict[zlast'.ele] = zlast'.score)
       => (zlast'.ret = FALSE /\ zset' = zset)]_vars

\* C24 witness: a ZAdd on a present element with its present score has
\* returned false while another element was in the set.
C24_Witness ==
    /\ zlast.op = "ZAdd" /\ ~zlast.ret
    /\ zlast.ele \in DOMAIN zset.dict
    /\ zset.dict[zlast.ele] = zlast.score
    /\ zset.length >= 2

\* The present elements in rank order: position r + 1 holds the element
\* that r present elements order before.
ZByRank(z) ==
    [r \in 1..Cardinality(DOMAIN z.dict) |->
        CHOOSE e \in DOMAIN z.dict : ZCountBefore(z, e) = r - 1]

\* The formatted elements of ranks lo..hi, in rank order.
ZRanks(z, lo, hi) ==
    [k \in 1..(hi - lo + 1) |->
        ZFormat([ele |-> ZByRank(z)[lo + k], score |-> z.dict[ZByRank(z)[lo + k]]])]

\* The same elements, highest rank first.
ZRevRanks(z, lo, hi) ==
    [k \in 1..(hi - lo + 1) |->
        ZFormat([ele |-> ZByRank(z)[z.length - lo - k + 1],
                 score |-> z.dict[ZByRank(z)[z.length - lo - k + 1]]])]

ZMin(a, b) == IF a <= b THEN a ELSE b

\* ZRange(start, stop) returns what the contract asks for.
ZRangeAsSpecified(z, start, stop) ==
    ZRange(z, start, stop) =
        [res |-> IF start > stop \/ start >= z.length THEN <<>>
                 ELSE ZRanks(z, start, ZMin(stop, z.length - 1)),
         panic |-> FALSE]

\* C25: after any sequence of ZAdd and ZRem calls, ZRange(start, stop) with
\* start >= 0 returns nothing when start > stop or start >= length, and
\* otherwise returns, in rank order, exactly the elements whose ranks are
\* start..min(stop, length-1); hence ZRange(ZRank(e), ZRank(e)) = [e] for
\* every present e.
C25_RangeByRank ==
    ~zmu =>
        /\ \A start \in 0..(NumEle + 1), stop \in 0..(NumEle + 1) :
              ZRangeAsSpecified(zset, start, stop)
        /\ \A e \in DOMAIN zset.dict :
              LET r == ZRank(zset, e)
              IN /\ r.ok
                 /\ ZRange(zset, r.rank, r.rank) =
                        [res |-> <<ZFormat([ele |-> e, score |-> zset.dict[e]])>>,
                         panic |-> FALSE]

\* ZRevRange(start, stop) returns what the contract asks for.
ZRevRangeAsSpecified(z, start, stop) ==
    ZRevRange(z, start, stop) =
        IF start > stop \/ start >= z.length THEN <<>>
        ELSE ZRevRanks(z, start, ZMin(stop, z.length - 1))

\* C26: after any sequence of ZAdd and ZRem calls, ZRevRange(start, stop)
\* walks backward pointers from the tail and returns, lowest-ordered element
\* first, exactly the elements whose reverse ranks are
\* start..min(stop, length-1); hence
\* ZRevRange(ZRevRank(e), ZRevRank(e)) = [e] for every present e.
C26_RevRangeByRevRank ==
    ~zmu =>
        /\ \A start \in 0..(NumEle + 1), stop \in 0..(NumEle + 1) :
              ZRevRangeAsSpecified(zset, start, stop)
        /\ \A e \in DOMAIN zset.dict :
              LET r == ZRevRank(zset, e)
              IN /\ r.ok
                 /\ ZRevRange(zset, r.rank, r.rank) =
                        <<ZFormat([ele |-> e, score |-> zset.dict[e]])>>

\* The spans of the level-i links from node x on, summed; last tells
\* whether the link that leaves the last level-i node (forward = nil) counts.
RECURSIVE ZSpanSum(_, _, _, _, _)
ZSpanSum(nodes, x, i, last, fuel) ==
    LET l == nodes[x].level[i] IN
    IF fuel = 0 THEN 0
    ELSE IF l.forward = Nil THEN (IF last THEN l.span ELSE 0)
    ELSE l.span + ZSpanSum(nodes, l.forward, i, last, fuel - 1)

\* C27: in every state reached by ZAdd and ZRem calls, for every level i in
\* use, the spans of the level-i links summed from the header to the tail
\* equal length (with or without the link that leaves the last node of the
\* level).
C27_SpanSumIsLength ==
    \A i \in ZLevels :
        i < zset.level =>
            \/ ZSpanSum(zset.nodes, ZHdr, i, FALSE, zset.length + 1) = zset.length
            \/ ZSpanSum(zset.nodes, ZHdr, i, TRUE, zset.length + 1) = zset.length

\* C28: ZRevRank(e) is computed on one consistent snapshot.  Even while
\* writers run concurrently, the value it returns equals
\* length - 1 - rank(e) for the length and the rank of a single state of the
\* set that existed during the call.
C28_RevRankSnapshot ==
    (zrr.pc = "done" /\ zrr.ok) =>
        \E s \in zrr.states :
            /\ s.rank.ok
            /\ zrr.ret = s.length - 1 - s.rank.rank

(***************************************************************************)
(*              Properties: lock-free list, one caller                     *)
(***************************************************************************)

\* C12: after each call Len equals the number of live nodes reached by
\* walking next from head, and the walk from tail along prev visits the same
\* nodes in the opposite order.
C12_LenAndWalks ==
    /\ ~sl.hang
    /\ \A l \in SlLists :
          /\ ListLen(sl, l) = Len(SlFromHead(sl, l))
          /\ \A i \in 1..Len(SlFromHead(sl, l)) : sl.elems[SlFromHead(sl, l)[i]].list = l
          /\ SlFromTail(sl, l) = Reverse(SlFromHead(sl, l))

\* C12 witness: a MoveToFront moved the tail of a list of two nodes to the
\* front.
C12_Witness ==
    /\ slLast.op = "MoveToFront" /\ slLast.ret /\ slLast.pos = 2
    /\ Len(slLast.before) = 2
    /\ ListLen(sl, slLast.l) = 2

\* The keys with an entry in the index of list l.
SlIndexed(s, l) == {k \in SlKeys : s.lists[l].index[k] # Nil}

\* C13: on a list with the index plugin the index holds exactly one entry per
\* live node, so the index size equals Len, whatever keys were added.
C13_IndexPerLiveNode ==
    \A l \in SlLists :
        HasCapability(sl, l, "CapIndexed") =>
            /\ Cardinality(SlIndexed(sl, l)) = ListLen(sl, l)
            /\ \A i \in 1..Len(SlFromHead(sl, l)) :
                  LET e == SlFromHead(sl, l)[i]
                  IN sl.lists[l].index[sl.elems[e].key] = e
            /\ \A k \in SlIndexed(sl, l) :
                  SlIndexOf(SlFromHead(sl, l), sl.lists[l].index[k]) # 0

C15_EvictsFromTail ==
    /\ (/\ slLast.op \in {"AddFront", "AddBack"}
        /\ HasCapability(sl, slLast.l, "CapLRU")
        /\ sl.lists[slLast.l].capacity >= 1
        /\ Len(slLast.before) + 1 > sl.lists[slLast.l].capacity)
       => LET w == SlFromHead(sl, slLast.l)
              at == SlIndexOf(w, sl.nodes[slLast.h])
              rest == SlWithout(SlItems(sl, slLast.l), at)
          IN /\ at # 0
             /\ sl.elems[sl.nodes[slLast.h]].key = slLast.key
             /\ Len(rest) = sl.lists[slLast.l].capacity - 1
             /\ rest = SubSeq(slLast.before, 1, Len(rest))
    /\ (/\ slLast.op = "SetValue" /\ slLast.ret
        /\ HasCapability(sl, slLast.l, "CapLRU"))
       => /\ sl.lists[slLast.l].head = sl.nodes[slLast.h]
          /\ SlItems(sl, slLast.l)
               = <<[key |-> slLast.key, value |-> slLast.val]>>
                 \o SlWithout(slLast.before, slLast.pos)

\* C15 witness: AddBack on a full LRU list of capacity 2 evicted the tail.
C15_Witness ==
    /\ slLast.op = "AddBack"
    /\ HasCapability(sl, slLast.l, "CapLRU")
    /\ sl.lists[slLast.l].capacity = 2
    /\ Len(slLast.before) = 2
    /\ ListLen(sl, slLast.l) = 2
    /\ sl.elems[sl.lists[slLast.l].head].key = slLast.key

\* The live nodes of list l with key k.
SlLive(s, l, k) ==
    {e \in 1..Len(s.elems) : SlIndexOf(SlFromHead(s, l), e) # 0 /\ s.elems[e].key = k}

\* C16: Find(k) returns a live node whose key is k whenever the list holds a
\* live node with key k, and nil otherwise, with or without the index plugin.
C16_FindLiveNode ==
    \A l \in SlLists, k \in SlKeys :
        IF SlLive(sl, l, k) # {} THEN List_Find(sl, l, k) \in SlLive(sl, l, k)
        ELSE List_Find(sl, l, k) = Nil

\* C17: an operation handed a node that was already removed, or that belongs
\* to another list, reports failure (Remove, MoveToFront and SetValue return
\* false, Prev and Next return nil) without changing the list and without
\* panicking.
C17_DeadOrForeignNode ==
    \A h \in 1..Len(sl.nodes) :
        LET e == sl.nodes[h]
        IN /\ \A l \in SlLists :
                 sl.elems[e].list # l =>
                     /\ List_Remove(sl, l, e) = [s |-> sl, ret |-> FALSE]
                     /\ List_MoveToFront(sl, l, e) = [s |-> sl, n |-> e, ret |-> FALSE]
           /\ sl.elems[e].list = Nil =>
                 /\ \A v \in SlVals :
                       Node_SetValue(sl, e, v) = [s |-> sl, n |-> e, ret |-> FALSE, fired |-> <<>>]
                 /\ Node_Prev(sl, e) = Nil
                 /\ Node_Next(sl, e) = Nil

\* C18: the Bloom filter never gives a false negative: whatever Add, Contains
\* and Reset calls one caller has made, a Contains(x) for an x added since the
\* last Reset returns true.
C18_NoFalseNegative ==
    (bfLast.op = "Contains" /\ bfLast.item \in bfAdded) => bfLast.ret

\* C19: a Contains call running concurrently with other Contains calls under
\* the reader lock returns what it would return alone on the current bit
\* array; in particular it returns true for an item already added.
C19_ConcurrentContains ==
    \A t \in BfThreads :
        bfThr[t].done =>
            /\ bfThr[t].ret = bfThr[t].alone
            /\ bfThr[t].added => bfThr[t].ret

\* C20: when other goroutines Store to a key k while RangeUpdate runs, then
\* after RangeUpdate returns the map has exactly one entry for k, and its value
\* is that of the store applied last: the external value, or the value
\* updateFn computed for k.
C20_LastWriteWins ==
    smRu.pc = "done" =>
        \A k \in SmKeys :
            smStores[k].ext > 0 =>
                /\ Cardinality({p \in smMap : p.k = k}) = 1
                /\ SafeMap_Load(smMap, k) = smStores[k].v
                /\ smStores[k].by = "worker" =>
                       \E j \in 1..Len(smRu.items) : smRu.items[j] = [k |-> k, v |-> smStores[k].v]

\* RangeUpdate has returned, and for some key a worker's store and an external
\* store raced, the worker's being applied last with a different value.
C20_Witness ==
    /\ smRu.pc = "done"
    /\ \E k \in SmKeys :
          /\ smStores[k].ext > 0
          /\ smStores[k].worker > 0
          /\ smStores[k].by = "worker"
          /\ SafeMap_Load(smMap, k) = smStores[k].v

\* The keys with an entry in map m.
SmKeysOf(m) == {p.k : p \in m}

\* C21: with no concurrent access, RangeUpdate calls updateFn exactly once for
\* each key present, with the key's value; when it returns, every key for which
\* updateFn answered (newV, true) maps to newV, every other key keeps its
\* value, and no key was added or removed.
C21_RangeUpdateAlone ==
    (smRu.pc = "done" /\ smOps = 0) =>
        /\ Len(smRu.calls) = Cardinality(SmKeysOf(smRu.start))
        /\ {smRu.calls[j] : j \in 1..Len(smRu.calls)} = smRu.start
        /\ smMap = {[k |-> p.k,
                     v |-> IF updateFn(smRu.fn, p.k, p.v).update
                           THEN updateFn(smRu.fn, p.k, p.v).newValue ELSE p.v] :
                        p \in smRu.start}

\* RangeUpdate has returned with no other goroutine at work, on a map of three
\* keys of which updateFn changed some and left others alone.
C21_Witness ==
    /\ smRu.pc = "done" /\ smOps = 0
    /\ Cardinality(smRu.start) = 3
    /\ Len(smRu.items) \in {1, 2}
    /\ smMap # smRu.start

\* Every collected pair has been stored by a worker.
SmAllStored ==
    \A k \in SmKeys :
        smStores[k].worker = Cardinality({j \in 1..Len(smRu.items) : smRu.items[j].k = k})

\* C22: RangeUpdate always returns, and only after every collected pair has
\* been stored; the workers and the bounded channel do not deadlock, for any
\* number of collected pairs, none and more than the channel holds included.
C22_AlwaysReturns ==
    /\ [](smRu.pc = "done" => SmAllStored)
    /\ (smRu.pc = "range") ~> (smRu.pc = "done")

\* RangeUpdate has returned after sending more pairs than taskCh buffers.
C22_Witness ==
    /\ smRu.pc = "done"
    /\ Len(smRu.items) > 2 * smRu.workerCount
    /\ SmAllStored

\* C23: after Store(k, v) with no later mutation of k, Load(k) = (v, true):
\* whatever goroutines stored and loaded, each stored key has one entry holding
\* the value stored last, and a Load of it returned that value and true.
C23_LoadAfterStore ==
    /\ \A k \in SmKeys :
          smStores[k].by # "none" =>
              /\ {p \in smMap : p.k = k} = {[k |-> k, v |-> smStores[k].v]}
              /\ SafeMap_Load(smMap, k) = smStores[k].v
    /\ smLast.op = "Load" =>
          IF smLast.last.by # "none"
          THEN smLast.value = smLast.last.v /\ smLast.ok
          ELSE smLast.value = 0 /\ ~smLast.ok

\* A Load returned the value a second Store to its key had put there.
C23_Witness ==
    /\ smLast.op = "Load" /\ smLast.ok
    /\ smLast.last.ext >= 2
    /\ smLast.value = smLast.last.v
    /\ Cardinality(smMap) >= 2

\* The number of entries of fired that call hook number i of the given kind.
SlFiredCount(fired, kind, i) ==
    Cardinality({k \in DOMAIN fired : fired[k].hook = kind /\ fired[k].i = i})

\* C29: SetValue(v) on a live node returns false and fires no hook when v is
\* deep-equal to the current value; otherwise it stores v, fires each update
\* hook and update callback once with the old value, and, exactly when the
\* list has the LRU capability, the node ends at the front of the list (on
\* the other lists it stays where it was).
C29_SetValueHooks ==
    (slLast.op = "SetValue" /\ slLast.l # Nil /\ ~sl.hang) =>
        LET l == slLast.l
            n == sl.nodes[slLast.h]
        IN IF slLast.old = slLast.val
           THEN /\ ~slLast.ret
                /\ slLast.fired = <<>>
                /\ SlItems(sl, l) = slLast.before
           ELSE /\ slLast.ret
                /\ IsValid(sl, n)
                /\ sl.elems[n].value = slLast.val
                /\ Len(slLast.fired) = Len(sl.lists[l].plugins) + sl.lists[l].onUpdate
                /\ \A i \in 1..Len(sl.lists[l].plugins) :
                      SlFiredCount(slLast.fired, "plugin", i) = 1
                /\ \A j \in 1..sl.lists[l].onUpdate :
                      SlFiredCount(slLast.fired, "callback", j) = 1
                /\ \A k \in DOMAIN slLast.fired :
                      slLast.fired[k].old = slLast.old /\ slLast.fired[k].n = n
                /\ IF HasCapability(sl, l, "CapLRU")
                   THEN sl.lists[l].head = n
                   ELSE SlIndexOf(SlFromHead(sl, l), n) = slLast.pos

\* C29 witness: on an LRU list with an update callback, SetValue gave the
\* second node a new value and moved it to the front.
C29_Witness ==
    /\ slLast.op = "SetValue" /\ slLast.ret /\ slLast.pos = 2
    /\ slLast.old # slLast.val
    /\ HasCapability(sl, slLast.l, "CapLRU")
    /\ sl.lists[slLast.l].onUpdate >= 1
    /\ sl.lists[slLast.l].head = sl.nodes[slLast.h]

C37_LockReleased ==
    zlast.op # "none" => ~zmu

(***************************************************************************)
(*                 Properties: Bloom filter, bit positions                 *)
(***************************************************************************)

\* C40: for every filter NewBloomFilter builds, the bit position that Add
\* and Contains compute from a hash is defined and lies in [0, m): no
\* division by zero and no out-of-range index for any size m >= 1, sizes
\* that are multiples of 256 included.
C40_IndexInRange ==
    bfLast.op = "positions" =>
        \A i \in DOMAIN bfLast.ret :
            bfLast.ret[i] # Panic /\ bfLast.ret[i] \in 0..(bf.m - 1)

\* C39: RangeUpdate changes only keys that are present: a key that another
\* goroutine deleted after phase 1 collected it, and that no other goroutine
\* stored again, is absent when RangeUpdate returns.
C39_DeletedStaysDeleted ==
    smRu.pc = "done" =>
        \A k \in SmKeys : smStores[k].del => k \notin SmKeysOf(smMap)

\* The entries of log that are calls of hook i of the given kind.
SlCalls(log, kind, hook, i) ==
    {j \in 1..Len(log) : log[j].kind = kind /\ log[j].hook = hook /\ log[j].i = i}

\* C38: an AddFront or AddBack call calls every registered insert callback
\* exactly once, with the node it inserted, and calls remove callbacks only for
\* nodes that are evicted (nodes that were in the list before the call), on a
\* list of any plugin preset.
C38_CallbacksOnce ==
    (slLast.op \in {"AddFront", "AddBack"} /\ ~sl.hang) =>
        /\ \A i \in 1..sl.lists[slLast.l].onInsert :
               /\ Cardinality(SlCalls(slLast.log, "insert", "callback", i)) = 1
               /\ \A j \in SlCalls(slLast.log, "insert", "callback", i) :
                      slLast.log[j].n = slLast.n
        /\ \A j \in 1..Len(slLast.log) :
               (slLast.log[j].kind = "remove" /\ slLast.log[j].hook = "callback") =>
                   slLast.log[j].n <= slLast.elems

C36_RemoveReturns ==
    \A t \in LfRemovers : (lfOp[t] = "remove") ~> (lfPc[t] = "done")

\* The first heapSize slots of h satisfy the heap property under h.compareFn.
HeapProperty(h) ==
    \A i \in 1..(h.heapSize - 1) :
        compareFn(h.compareFn, h.HPDate[((i - 1) \div 2) + 1], h.HPDate[i + 1]) <= 0

\* C32: after any sequence of Insert and Pop calls (an Insert on a full heap
\* changing nothing), compareFn(parent, child) <= 0 for every slot i > 0 of the
\* first heapSize slots and its parent at (i - 1) / 2.
C32_HeapProperty ==
    /\ HeapProperty(hp)
    /\ (hpLast.op = "Insert" /\ hpLast.full) => hp = hpLast.before

\* A Pop on a full heap of four or more elements has returned: the last
\* element went to the root and DownAdjust moved it down; more calls were made
\* than the heap has slots.
C32_Witness ==
    /\ hpLast.op = "Pop"
    /\ hpLast.before.heapSize = hpLast.before.capacity
    /\ hp.heapSize >= 3
    /\ hp.HPDate[1] # hpLast.before.HPDate[hpLast.before.heapSize]
    /\ hpOps > hpLast.before.capacity + 1

\* The number of entries of sequence w equal to v.
HpCount(w, v) == Cardinality({i \in 1..Len(w) : w[i] = v})

\* C33: HeapSorted(arr, cmp) returns the elements of arr with their
\* multiplicities, in non-decreasing order under cmp, for every array, the
\* empty one, one-element ones and ones with duplicates included.
C33_SortedPermutation ==
    hpLast.op = "HeapSorted" =>
        /\ Len(hpLast.ret) = Len(hpLast.arg.arr)
        /\ \A v \in HpVals : HpCount(hpLast.ret, v) = HpCount(hpLast.arg.arr, v)
        /\ \A i \in 1..(Len(hpLast.ret) - 1) :
               compareFn(hpLast.arg.compareFn, hpLast.ret[i], hpLast.ret[i + 1]) <= 0

\* HeapSorted has returned for an unsorted array of four elements with a
\* duplicate, under the MaxHeap comparison.
C33_Witness ==
    /\ hpLast.op = "HeapSorted"
    /\ hpLast.arg.compareFn.fn = "MaxHeap"
    /\ Len(hpLast.arg.arr) = 4
    /\ hpLast.arg.arr[1] < hpLast.arg.arr[2]
    /\ hpLast.arg.arr[2] = hpLast.arg.arr[4]
    /\ hpLast.ret # hpLast.arg.arr

\* C34: a list built by New(true) is safe under concurrent mutation: when the
\* AddBack, AddFront and Remove calls of the goroutines have returned, Len is
\* the number of nodes linked from the root, and of the goroutines that
\* removed the same node exactly one got true and the others false; no call
\* panics.
C34_MutexListSafe ==
    /\ \A t \in MlThreads : mlT[t].ret # "panic"
    /\ (\A t \in MlThreads : mlT[t].pc = "done") =>
           /\ ml.len = Len(MlWalk(ml, ml.next[MlRoot], MlRoot + 1))
           /\ \A n \in MlLinkedNodes :
                  LET rs == {t \in MlThreads : mlT[t].op = "Remove" /\ mlT[t].n = n}
                  IN Cardinality(rs) >= 2 =>
                         /\ Cardinality({t \in rs : mlT[t].ret = "true"}) = 1
                         /\ \A t \in rs : mlT[t].ret \in {"true", "false"}

\* C35: in both subscribe loops a message is acknowledged only when its
\* handler returned success, and when the handler failed the message is not
\* acknowledged and a negative acknowledgement is signalled.
C35_AckOnlyOnSuccess ==
    \A m \in SubMsgs :
        /\ sub.msgs[m].ack => sub.msgs[m].result = "ok"
        /\ sub.msgs[m].result = "fail" => (~sub.msgs[m].ack /\ sub.msgs[m].nak)

====
